---- MODULE Spec2Model ----
(***************************************************************************)
(* A model of the ViewMax REST API (the express server) and the query,     *)
(* pagination and source-resolution logic of its route handlers.           *)
(*                                                                         *)
(* Strings are sequences of one-character strings, so that toLowerCase,    *)
(* includes and parseInt are computed character by character.  A value     *)
(* that is absent in JavaScript (a query parameter that was not sent) is   *)
(* the value undefined.  A record field that the JSON omits is a field     *)
(* missing from the record's DOMAIN.                                       *)
(***************************************************************************)
EXTENDS Integers, Sequences, FiniteSets, TLC

VARIABLES
    moviesFile,   \* data/movies.json on disk
    seriesFile,   \* data/series.json on disk
    hits,         \* the rate limiter's request count of the current window
    req,          \* the request of the last exchange, NoReq when none is held
    resp,         \* the response sent for req
    filesRead,    \* the data files read while answering req
    nodeEnv,      \* process.env.NODE_ENV, fixed when the process starts
    seriesPlayer, \* the browser's window.seriesPlayer and its page
    searchManager, \* the browser's window.searchManager, its inputs and timers
    pager         \* an API client reading a list endpoint page by page

vars == <<moviesFile, seriesFile, hits, req, resp, filesRead, nodeEnv,
          seriesPlayer, searchManager, pager>>

serverVars == <<moviesFile, seriesFile, hits, req, resp, filesRead, nodeEnv>>

browserVars == <<seriesPlayer, searchManager>>

----------------------------------------------------------------------------
(* Bounds of the model *)

\* longest list stored in a data file
MaxItems == 2
\* requests counted from an empty window before the window must expire
MaxHits == 2
\* universal-search requests of the search box that may be in flight at once
MaxCalls == 2
\* suggestions requests the search box sends in one run
MaxRequests == 2

----------------------------------------------------------------------------
(* JavaScript values and string operations *)

undefined == <<"undefined">>

\* the NaN that parseInt returns for a string with no leading number
NaN == -999

Truthy(v) == v # undefined /\ v # <<>>

Digits == {"0", "1", "2", "3", "4", "5", "6", "7", "8", "9"}

DigitVal(c) ==
    CASE c = "0" -> 0 [] c = "1" -> 1 [] c = "2" -> 2 [] c = "3" -> 3
      [] c = "4" -> 4 [] c = "5" -> 5 [] c = "6" -> 6 [] c = "7" -> 7
      [] c = "8" -> 8 [] c = "9" -> 9

toLowerChar(c) ==
    CASE c = "A" -> "a" [] c = "B" -> "b" [] c = "C" -> "c" [] c = "D" -> "d"
      [] c = "L" -> "l" [] c = "X" -> "x"
      [] OTHER -> c

toLowerCase(s) == [i \in 1..Len(s) |-> toLowerChar(s[i])]

includes(s, t) ==
    \E i \in 0..(Len(s) - Len(t)) : SubSeq(s, i + 1, i + Len(t)) = t

\* the value of the longest prefix of digits of s
RECURSIVE digitsValue(_, _)
digitsValue(s, acc) ==
    IF s = <<>> \/ Head(s) \notin Digits THEN acc
    ELSE digitsValue(Tail(s), acc * 10 + DigitVal(Head(s)))

parseInt(s) ==
    LET neg == s # <<>> /\ Head(s) = "-"
        body == IF neg THEN Tail(s) ELSE s
    IN IF body = <<>> \/ Head(body) \notin Digits THEN NaN
       ELSE IF neg THEN 0 - digitsValue(body, 0) ELSE digitsValue(body, 0)

plus(a, b) == IF a = NaN \/ b = NaN THEN NaN ELSE a + b

lessThan(a, b) == a # NaN /\ b # NaN /\ a < b

\* Array.prototype.slice: NaN counts as 0, a negative index counts from the end
relIndex(k, len) ==
    IF k = NaN THEN 0
    ELSE IF k < 0 THEN (IF len + k < 0 THEN 0 ELSE len + k)
    ELSE IF k > len THEN len ELSE k

slice(arr, start, end) ==
    SubSeq(arr, relIndex(start, Len(arr)) + 1, relIndex(end, Len(arr)))

\* Array.prototype.find: the index of the first element satisfying P, 0 if none
findIndex(arr, P(_)) ==
    IF \E i \in 1..Len(arr) : P(arr[i])
    THEN CHOOSE i \in 1..Len(arr) : P(arr[i]) /\ \A j \in 1..(i - 1) : ~P(arr[j])
    ELSE 0

----------------------------------------------------------------------------
(* The content store *)

\* a data file is readable JSON ("ok"), absent ("missing") or unparseable ("corrupt")
FileStates == {"ok", "missing", "corrupt"}

readJSONFile_rethrow(file) ==
    IF file.state = "ok" THEN [threw |-> FALSE, value |-> file.content]
    ELSE [threw |-> TRUE, value |-> <<>>]

\* try { readFile; JSON.parse } catch { return [] }: the result never throws
readJSONFile(file) ==
    IF file.state = "ok" THEN [threw |-> FALSE, value |-> file.content]
    ELSE [threw |-> FALSE, value |-> <<>>]

\* fs.writeFile(filePath, JSON.stringify(data)): the file as it is afterwards;
\* no route handler calls it
writeJSONFile(data) == [state |-> "ok", content |-> data]

----------------------------------------------------------------------------
(* The rate limiter in front of /api/ *)

RateLimitMax == 1000

\* the count after this request, held at RateLimitMax + 1 once over the limit
countHit(h) == IF h > RateLimitMax THEN h ELSE h + 1

\* the limiter lets every request through
limited_never(h) == FALSE

limited(h) == countHit(h) > RateLimitMax

TooManyRequests ==
    [status |-> 429, body |-> [message |-> "Too many requests from this IP, please try again later."]]

----------------------------------------------------------------------------
(* Requests and responses *)

NoReq == [route |-> "none"]
NoResp == [status |-> 0]

\* req.query with no parameter sent
EmptyQuery ==
    [search |-> undefined, genre |-> undefined, limit |-> undefined,
     offset |-> undefined, q |-> undefined, type |-> undefined,
     title |-> undefined, source |-> undefined, season |-> undefined,
     episode |-> undefined]

missing_undefinedOnly(v) == v = undefined

\* if (!q), if (!title)
missing(v) == ~Truthy(v)

\* const { x = d } = req.query
orDefault(v, d) == IF v = undefined THEN d ELSE v

DefaultLimit == <<"2", "0">>
DefaultOffset == <<"0">>
sAll == <<"a", "l", "l">>

ok(body, reads) == [status |-> 200, body |-> body, reads |-> reads]

notFound_statusUnset(error, reads) ==
    [status |-> 200, body |-> [success |-> FALSE, error |-> error], reads |-> reads]

notFound(error, reads) ==
    [status |-> 404, body |-> [success |-> FALSE, error |-> error], reads |-> reads]

badRequest(error) ==
    [status |-> 400, body |-> [success |-> FALSE, error |-> error], reads |-> {}]

\* the catch block of a route handler
serverError(error, message, reads) ==
    [status |-> 500,
     body |-> [success |-> FALSE, error |-> error, message |-> message],
     reads |-> reads]

----------------------------------------------------------------------------
(* The query engine: search filter, genre filter, pagination *)

matchesSearch(item, searchTerm) ==
    \/ includes(toLowerCase(item.name), searchTerm)
    \/ includes(toLowerCase(item.description), searchTerm)
    \/ includes(toLowerCase(item.genre), searchTerm)

matchesGenre_caseSensitive(item, genre) ==
    includes(item.genre, genre)

matchesGenre(item, genre) ==
    includes(toLowerCase(item.genre), toLowerCase(genre))

\* the filter's result is dropped
applySearch_unassigned(items, search) == items

applySearch(items, search) ==
    IF Truthy(search)
    THEN SelectSeq(items, LAMBDA m : matchesSearch(m, toLowerCase(search)))
    ELSE items

\* 'all' is a genre like any other
applyGenre_allIsAGenre(items, genre) ==
    IF Truthy(genre)
    THEN SelectSeq(items, LAMBDA m : matchesGenre(m, genre))
    ELSE items

applyGenre(items, genre) ==
    IF Truthy(genre) /\ genre # sAll
    THEN SelectSeq(items, LAMBDA m : matchesGenre(m, genre))
    ELSE items

\* the page starts one record after the offset
paginate_fromNext(items, limit, offset) ==
    LET startIndex == parseInt(offset)
        endIndex == plus(startIndex, parseInt(limit))
    IN [success |-> TRUE,
        data |-> slice(items, plus(startIndex, 1), plus(endIndex, 1)),
        total |-> Len(items),
        limit |-> parseInt(limit),
        offset |-> parseInt(offset),
        hasMore |-> lessThan(endIndex, Len(items))]

paginate_inclusiveEnd(items, limit, offset) ==
    LET startIndex == parseInt(offset)
        endIndex == plus(startIndex, parseInt(limit))
    IN [success |-> TRUE,
        data |-> slice(items, startIndex, endIndex),
        total |-> Len(items),
        limit |-> parseInt(limit),
        offset |-> parseInt(offset),
        hasMore |-> ~lessThan(Len(items), endIndex)]

paginate(items, limit, offset) ==
    LET startIndex == parseInt(offset)
        endIndex == plus(startIndex, parseInt(limit))
    IN [success |-> TRUE,
        data |-> slice(items, startIndex, endIndex),
        total |-> Len(items),
        limit |-> parseInt(limit),
        offset |-> parseInt(offset),
        hasMore |-> lessThan(endIndex, Len(items))]

\* every item is tagged as a movie
withType_movie(items, t) == [i \in 1..Len(items) |-> ("type" :> "movie") @@ items[i]]

\* { ...item, type: t }
withType(items, t) == [i \in 1..Len(items) |-> ("type" :> t) @@ items[i]]

\* GET /api/movies
getMovies(query, file) ==
    LET r == readJSONFile(file)
        limit == orDefault(query.limit, DefaultLimit)
        offset == orDefault(query.offset, DefaultOffset)
    IN IF r.threw
       THEN serverError("Failed to fetch movies", "read", {"movies.json"})
       ELSE ok(paginate(applyGenre(applySearch(r.value, query.search), query.genre),
                        limit, offset),
               {"movies.json"})

\* GET /api/series
getSeries(query, file) ==
    LET r == readJSONFile(file)
        limit == orDefault(query.limit, DefaultLimit)
        offset == orDefault(query.offset, DefaultOffset)
    IN IF r.threw
       THEN serverError("Failed to fetch series", "read", {"series.json"})
       ELSE ok(paginate(applyGenre(applySearch(r.value, query.search), query.genre),
                        limit, offset),
               {"series.json"})

\* GET /api/search
search(query, mFile, sFile) ==
    LET limit == orDefault(query.limit, DefaultLimit)
        offset == orDefault(query.offset, DefaultOffset)
        type == query.type
        wantMovies == ~Truthy(type) \/ type = <<"m", "o", "v", "i", "e">> \/ type = sAll
        wantSeries == ~Truthy(type) \/ type = <<"s", "e", "r", "i", "e", "s">> \/ type = sAll
        rm == readJSONFile(mFile)
        rs == readJSONFile(sFile)
        reads == (IF wantMovies THEN {"movies.json"} ELSE {})
                   \cup (IF wantSeries /\ ~(wantMovies /\ rm.threw)
                         THEN {"series.json"} ELSE {})
        searchTerm == toLowerCase(query.q)
        movieResults ==
            IF wantMovies
            THEN withType(SelectSeq(rm.value, LAMBDA m : matchesSearch(m, searchTerm)),
                          "movie")
            ELSE <<>>
        seriesResults ==
            IF wantSeries
            THEN withType(SelectSeq(rs.value, LAMBDA m : matchesSearch(m, searchTerm)),
                          "series")
            ELSE <<>>
    IN IF missing(query.q) THEN badRequest("Search query is required")
       ELSE IF (wantMovies /\ rm.threw) \/ (wantSeries /\ rs.threw)
       THEN serverError("Search failed", "read", reads)
       ELSE ok(paginate(applyGenre(movieResults \o seriesResults, query.genre),
                        limit, offset)
                 @@ ("query" :> query.q),
               reads)

----------------------------------------------------------------------------
(* Lookup by name: single movie, single series, episodes *)

sameName_caseSensitive(item, name) == item.name = name

sameName(item, name) == toLowerCase(item.name) = toLowerCase(name)

\* GET /api/movies/:name
getMovie(name, file) ==
    LET r == readJSONFile(file)
        movies == r.value
        i == findIndex(movies, LAMBDA m : sameName(m, name))
    IN IF r.threw THEN serverError("Failed to fetch movie", "read", {"movies.json"})
       ELSE IF i = 0 THEN notFound("Movie not found", {"movies.json"})
       ELSE ok([success |-> TRUE, data |-> movies[i]], {"movies.json"})

\* GET /api/series/:name
getSeriesInfo(name, file) ==
    LET r == readJSONFile(file)
        series == r.value
        i == findIndex(series, LAMBDA m : sameName(m, name))
    IN IF r.threw THEN serverError("Failed to fetch series", "read", {"series.json"})
       ELSE IF i = 0 THEN notFound("Series not found", {"series.json"})
       ELSE ok([success |-> TRUE, data |-> series[i]], {"series.json"})

\* show.episodes || []
episodesOf(show) == IF "episodes" \in DOMAIN show THEN show.episodes ELSE <<>>

\* GET /api/series/:name/episodes
getEpisodes(name, query, file) ==
    LET r == readJSONFile(file)
        series == r.value
        i == findIndex(series, LAMBDA m : sameName(m, name))
        show == series[i]
        all == episodesOf(show)
        bySeason ==
            IF Truthy(query.season)
            THEN SelectSeq(all, LAMBDA ep : ep.season = parseInt(query.season))
            ELSE all
        byEpisode ==
            IF Truthy(query.episode)
            THEN SelectSeq(bySeason, LAMBDA ep : ep.episode = parseInt(query.episode))
            ELSE bySeason
    IN IF r.threw THEN serverError("Failed to fetch episodes", "read", {"series.json"})
       ELSE IF i = 0 THEN notFound("Series not found", {"series.json"})
       ELSE ok([success |-> TRUE,
                data |-> byEpisode,
                seriesInfo |-> [name |-> show.name, description |-> show.description,
                                genre |-> show.genre, rating |-> show.rating,
                                releaseDate |-> show.releaseDate, image |-> show.image]],
               {"series.json"})

----------------------------------------------------------------------------
(* The resolver: GET /api/iframe *)

sPrimary == <<"p", "r", "i", "m", "a", "r", "y">>
sSecondary == <<"s", "e", "c", "o", "n", "d", "a", "r", "y">>
sTertiary == <<"t", "e", "r", "t", "i", "a", "r", "y">>

sourceKey(source) ==
    IF source = sPrimary THEN "source1"
    ELSE IF source = sSecondary THEN "source2"
    ELSE IF source = sTertiary THEN "source3"
    ELSE "source1"

\* obj[key], undefined when the object has no such key
prop(obj, key) == IF key \in DOMAIN obj THEN obj[key] ELSE undefined

\* a || b
orElse(a, b) == IF Truthy(a) THEN a ELSE b

resolveSource_noFallback(sources, key) == prop(sources, key)

\* sources[sourceKey] || sources.source1
resolveSource(sources, key) == orElse(prop(sources, key), prop(sources, "source1"))

hasSources(item) == "sources" \in DOMAIN item

firstEp_last(episodes) == episodes[Len(episodes)]

\* show.episodes[0]
firstEp(episodes) == episodes[1]

movieAnswer(movie, source) ==
    [success |-> TRUE,
     data |-> [title |-> movie.name,
               type |-> "movie",
               iframe |-> resolveSource(movie.sources, sourceKey(source)),
               availableSources |-> DOMAIN movie.sources]]

episodeAnswer(show, ep, source) ==
    [success |-> TRUE,
     data |-> [title |-> show.name,
               type |-> "series",
               season |-> ep.season,
               episode |-> ep.episode,
               episodeTitle |-> ep.title,
               iframe |-> resolveSource(ep.sources, sourceKey(source)),
               availableSources |-> DOMAIN ep.sources]]

iframe(query, mFile, sFile) ==
    LET title == query.title
        source == orDefault(query.source, sPrimary)
        rm == readJSONFile(mFile)
        movies == rm.value
        mi == findIndex(movies, LAMBDA m : sameName(m, title))
        rs == readJSONFile(sFile)
        series == rs.value
        si == findIndex(series, LAMBDA m : sameName(m, title))
        show == series[si]
        eps == episodesOf(show)
        ei == IF Truthy(query.season) /\ Truthy(query.episode)
              THEN findIndex(eps, LAMBDA e : /\ e.season = parseInt(query.season)
                                             /\ e.episode = parseInt(query.episode))
              ELSE 0
        both == {"movies.json", "series.json"}
    IN IF missing(title) THEN badRequest("Title is required")
       ELSE IF rm.threw
       THEN serverError("Failed to get iframe source", "read", {"movies.json"})
       ELSE IF mi # 0 /\ hasSources(movies[mi])
       THEN ok(movieAnswer(movies[mi], source), {"movies.json"})
       ELSE IF rs.threw THEN serverError("Failed to get iframe source", "read", both)
       ELSE IF si # 0 /\ ei # 0 /\ hasSources(eps[ei])
       THEN ok(episodeAnswer(show, eps[ei], source), both)
       ELSE IF si # 0 /\ Len(eps) > 0
       THEN (IF hasSources(firstEp(eps))
             THEN ok(episodeAnswer(show, firstEp(eps), source), both)
             \* firstEp.sources is undefined: firstEp.sources[sourceKey] throws
             ELSE serverError("Failed to get iframe source", "TypeError", both))
       ELSE notFound("Content not found", both)

----------------------------------------------------------------------------
(* Trending, statistics, genres, health *)

\* parseFloat of a rating, in tenths: "8" is 80, "8.5" is 85
parseFloatTenths(s) ==
    LET whole == parseInt(s)
        dot == CHOOSE i \in 1..(Len(s) + 1) :
                  (i = Len(s) + 1 \/ s[i] \notin Digits)
                  /\ \A j \in 1..(i - 1) : s[j] \in Digits
    IN IF whole = NaN THEN NaN
       ELSE IF dot < Len(s) /\ s[dot] = "." /\ s[dot + 1] \in Digits
       THEN whole * 10 + DigitVal(s[dot + 1])
       ELSE whole * 10

\* b sorts before a under (a, b) => parseFloat(b.rating) - parseFloat(a.rating)
ratedHigher(b, a) ==
    LET rb == parseFloatTenths(b.rating)
        ra == parseFloatTenths(a.rating)
    IN rb # NaN /\ ra # NaN /\ rb > ra

\* the list is left in stored order
sortByRating_unsorted(items) == items

\* Array.prototype.sort with that comparator: stable, highest rating first
RECURSIVE sortByRating(_)
sortByRating(items) ==
    IF items = <<>> THEN <<>>
    ELSE LET rest == sortByRating(SubSeq(items, 1, Len(items) - 1))
             x == items[Len(items)]
             k == Cardinality({i \in 1..Len(rest) : ~ratedHigher(x, rest[i])})
         IN SubSeq(rest, 1, k) \o <<x>> \o SubSeq(rest, k + 1, Len(rest))

\* parseInt(limit) / 2 as slice takes it: truncated toward zero
halfOf(n) ==
    IF n = NaN THEN NaN
    ELSE IF n >= 0 THEN n \div 2 ELSE 0 - ((0 - n) \div 2)

Orders(n) == {f \in [1..n -> 1..n] : \A i, j \in 1..n : i # j => f[i] # f[j]}

wantsMovies(type) ==
    ~Truthy(type) \/ type = sAll \/ type = <<"m", "o", "v", "i", "e">>

wantsSeries(type) ==
    ~Truthy(type) \/ type = sAll \/ type = <<"s", "e", "r", "i", "e", "s">>

\* the top halves of the requested collections, movies first, before the shuffle
trendingItems(query, mFile, sFile) ==
    LET limit == parseInt(orDefault(query.limit, DefaultLimit))
        trendingMovies ==
            IF wantsMovies(query.type)
            THEN withType(slice(sortByRating(readJSONFile(mFile).value), 0, halfOf(limit)),
                          "movie")
            ELSE <<>>
        trendingSeries ==
            IF wantsSeries(query.type)
            THEN withType(slice(sortByRating(readJSONFile(sFile).value), 0, halfOf(limit)),
                          "series")
            ELSE <<>>
    IN trendingMovies \o trendingSeries

\* GET /api/trending; order is the outcome of sort(() => Math.random() - 0.5)
trending(query, mFile, sFile, order) ==
    LET limit == parseInt(orDefault(query.limit, DefaultLimit))
        rm == readJSONFile(mFile)
        rs == readJSONFile(sFile)
        movieError == wantsMovies(query.type) /\ rm.threw
        seriesError == wantsSeries(query.type) /\ rs.threw
        reads == (IF wantsMovies(query.type) THEN {"movies.json"} ELSE {})
                   \cup (IF wantsSeries(query.type) /\ ~movieError
                         THEN {"series.json"} ELSE {})
        all == trendingItems(query, mFile, sFile)
        shuffled == [i \in 1..Len(all) |-> all[order[i]]]
    IN IF movieError \/ seriesError
       THEN serverError("Failed to fetch trending content", "read", reads)
       ELSE ok([success |-> TRUE, data |-> slice(shuffled, 0, limit)], reads)

\* String.prototype.trim
RECURSIVE trimStart(_)
trimStart(s) == IF s # <<>> /\ Head(s) = " " THEN trimStart(Tail(s)) ELSE s

RECURSIVE trimEnd(_)
trimEnd(s) ==
    IF s # <<>> /\ s[Len(s)] = " " THEN trimEnd(SubSeq(s, 1, Len(s) - 1)) ELSE s

trim(s) == trimEnd(trimStart(s))

\* String.prototype.split(',')
RECURSIVE split(_)
split(s) ==
    IF \E i \in 1..Len(s) : s[i] = ","
    THEN LET i == CHOOSE i \in 1..Len(s) :
                      s[i] = "," /\ \A j \in 1..(i - 1) : s[j] # ","
         IN <<SubSeq(s, 1, i - 1)>> \o split(SubSeq(s, i + 1, Len(s)))
    ELSE <<s>>

\* the pieces are not trimmed
RECURSIVE genreTags_untrimmed(_)
genreTags_untrimmed(items) ==
    IF items = <<>> THEN <<>>
    ELSE split(Head(items).genre) \o genreTags_untrimmed(Tail(items))

\* items.flatMap(m => m.genre.split(',').map(g => g.trim()))
RECURSIVE genreTags(_)
genreTags(items) ==
    IF items = <<>> THEN <<>>
    ELSE LET parts == split(Head(items).genre)
         IN [i \in 1..Len(parts) |-> trim(parts[i])] \o genreTags(Tail(items))

\* [...new Set(list)]: first occurrences, in order
unique(list) ==
    LET keep == {i \in 1..Len(list) : \A j \in 1..(i - 1) : list[j] # list[i]}
        nth(k) == CHOOSE i \in keep : Cardinality({j \in keep : j < i}) = k - 1
    IN [k \in 1..Cardinality(keep) |-> list[nth(k)]]

charCode(c) ==
    CASE c = " " -> 32 [] c = "," -> 44 [] c = "A" -> 65 [] c = "B" -> 66
      [] c = "C" -> 67 [] c = "D" -> 68 [] c = "a" -> 97 [] c = "b" -> 98
      [] c = "c" -> 99 [] c = "d" -> 100 [] OTHER -> 120

\* the default order of Array.prototype.sort: by UTF-16 code units
RECURSIVE stringBefore(_, _)
stringBefore(a, b) ==
    IF a = <<>> THEN b # <<>>
    ELSE IF b = <<>> THEN FALSE
    ELSE IF Head(a) = Head(b) THEN stringBefore(Tail(a), Tail(b))
    ELSE charCode(Head(a)) < charCode(Head(b))

\* sort() of a list of distinct strings
sortStrings(list) ==
    LET rank(i) == Cardinality({j \in 1..Len(list) : stringBefore(list[j], list[i])})
    IN [k \in 1..Len(list) |-> list[CHOOSE i \in 1..Len(list) : rank(i) = k - 1]]

RECURSIVE sumRatings(_)
\* reduce((sum, m) => sum + parseFloat(m.rating || 0), 0), in tenths
sumRatings(items) ==
    IF items = <<>> THEN 0
    ELSE LET rating == orElse(prop(Head(items), "rating"), <<"0">>)
         IN plus(parseFloatTenths(rating), sumRatings(Tail(items)))

digitChar(d) ==
    CASE d = 0 -> "0" [] d = 1 -> "1" [] d = 2 -> "2" [] d = 3 -> "3" [] d = 4 -> "4"
      [] d = 5 -> "5" [] d = 6 -> "6" [] d = 7 -> "7" [] d = 8 -> "8" [] d = 9 -> "9"

RECURSIVE decimal(_)
decimal(n) == IF n < 10 THEN <<digitChar(n)>> ELSE Append(decimal(n \div 10), digitChar(n % 10))

sNaN == <<"N", "a", "N">>

\* an empty collection is given the average 0.0
averageToFixed_guarded(sumTenths, count) ==
    IF count = 0 THEN <<"0", ".", "0">>
    ELSE IF sumTenths = NaN THEN sNaN
    ELSE LET rounded == (2 * sumTenths + count) \div (2 * count)
         IN decimal(rounded \div 10) \o <<".", digitChar(rounded % 10)>>

\* (sum / count).toFixed(1) for a sum in tenths: 0 / 0 is NaN
averageToFixed(sumTenths, count) ==
    IF count = 0 \/ sumTenths = NaN THEN sNaN
    ELSE LET rounded == (2 * sumTenths + count) \div (2 * count)
         IN decimal(rounded \div 10) \o <<".", digitChar(rounded % 10)>>

RECURSIVE totalEpisodes(_)
totalEpisodes(series) ==
    IF series = <<>> THEN 0
    ELSE Len(episodesOf(Head(series))) + totalEpisodes(Tail(series))

\* GET /api/stats
stats(mFile, sFile) ==
    LET rm == readJSONFile(mFile)
        rs == readJSONFile(sFile)
        movies == rm.value
        series == rs.value
        allGenres == unique(genreTags(movies) \o genreTags(series))
    IN IF rm.threw THEN serverError("Failed to fetch statistics", "read", {"movies.json"})
       ELSE IF rs.threw
       THEN serverError("Failed to fetch statistics", "read", {"movies.json", "series.json"})
       ELSE ok([success |-> TRUE,
                data |-> [totalMovies |-> Len(movies),
                          totalSeries |-> Len(series),
                          totalEpisodes |-> totalEpisodes(series),
                          totalGenres |-> Len(allGenres),
                          genres |-> allGenres,
                          averageMovieRating |->
                              averageToFixed(sumRatings(movies), Len(movies)),
                          averageSeriesRating |->
                              averageToFixed(sumRatings(series), Len(series))]],
               {"movies.json", "series.json"})

\* GET /api/genres
genres(mFile, sFile) ==
    LET rm == readJSONFile(mFile)
        rs == readJSONFile(sFile)
        allGenres == sortStrings(unique(genreTags(rm.value) \o genreTags(rs.value)))
    IN IF rm.threw THEN serverError("Failed to fetch genres", "read", {"movies.json"})
       ELSE IF rs.threw
       THEN serverError("Failed to fetch genres", "read", {"movies.json", "series.json"})
       ELSE ok([success |-> TRUE, data |-> allGenres], {"movies.json", "series.json"})

\* success is reported as false
health_degraded(now) ==
    ok([success |-> FALSE, message |-> "ViewMax API is running",
        timestamp |-> now, version |-> "1.0.0"], {})

\* GET /api/health; now is new Date()
health(now) ==
    ok([success |-> TRUE, message |-> "ViewMax API is running",
        timestamp |-> now, version |-> "1.0.0"], {})

\* app.use('/api/*'): no route matched
endpointNotFound ==
    [status |-> 404,
     body |-> [success |-> FALSE, error |-> "API endpoint not found",
               availableEndpoints |->
                   <<"GET /api/movies", "GET /api/movies/:name", "GET /api/series",
                     "GET /api/series/:name", "GET /api/series/:name/episodes",
                     "GET /api/search", "GET /api/iframe", "GET /api/trending",
                     "GET /api/stats", "GET /api/genres", "GET /api/health">>],
     reads |-> {}]

sDevelopment == "development"

\* the message of the SyntaxError express.json() raises on a malformed JSON body
sSyntaxError == "SyntaxError"

\* app.use((error, req, res, next) => ...): an error handed to next()
globalErrorHandler(env, message) ==
    [status |-> 500,
     body |-> [success |-> FALSE, error |-> "Internal server error",
               message |-> IF env = sDevelopment THEN message
                           ELSE "Something went wrong"],
     reads |-> {}]

----------------------------------------------------------------------------
(* The server: one exchange at a time, behind the rate limiter *)

Idle == req = NoReq

\* app.use('/api/', limiter), then the route handler
Served(r, out) ==
    /\ Idle
    /\ hits < MaxHits \/ hits >= RateLimitMax
    /\ hits' = countHit(hits)
    /\ req' = r
    /\ IF limited(hits)
       THEN resp' = TooManyRequests /\ filesRead' = {}
       ELSE resp' = [status |-> out.status, body |-> out.body] /\ filesRead' = out.reads
    /\ UNCHANGED <<moviesFile, seriesFile, nodeEnv, browserVars>>

\* a request of a client the model keeps no state of
Exchange(r, out) == Served(r, out) /\ UNCHANGED pager

Request(route, name, query) == [route |-> route, name |-> name, query |-> query]

GetMovies(query) ==
    Exchange(Request("/api/movies", undefined, query), getMovies(query, moviesFile))

GetSeries(query) ==
    Exchange(Request("/api/series", undefined, query), getSeries(query, seriesFile))

Search(query) ==
    Exchange(Request("/api/search", undefined, query),
             search(query, moviesFile, seriesFile))

GetMovie(name) ==
    Exchange(Request("/api/movies/:name", name, EmptyQuery), getMovie(name, moviesFile))

GetSeriesInfo(name) ==
    Exchange(Request("/api/series/:name", name, EmptyQuery),
             getSeriesInfo(name, seriesFile))

GetEpisodes(name, query) ==
    Exchange(Request("/api/series/:name/episodes", name, query),
             getEpisodes(name, query, seriesFile))

Iframe(query) ==
    Exchange(Request("/api/iframe", undefined, query),
             iframe(query, moviesFile, seriesFile))

\* the handler saves the list it sorted in place
Trending_persistSorted(query) ==
    \E order \in Orders(Len(trendingItems(query, moviesFile, seriesFile))) :
        LET out == trending(query, moviesFile, seriesFile, order)
        IN /\ Idle
           /\ hits < MaxHits \/ hits >= RateLimitMax
           /\ hits' = countHit(hits)
           /\ req' = Request("/api/trending", undefined, query)
           /\ IF limited(hits)
              THEN resp' = TooManyRequests /\ filesRead' = {}
              ELSE resp' = [status |-> out.status, body |-> out.body]
                   /\ filesRead' = out.reads
           /\ moviesFile' =
                 IF limited(hits) THEN moviesFile
                 ELSE writeJSONFile(sortByRating(readJSONFile(moviesFile).value))
           /\ UNCHANGED <<seriesFile, nodeEnv, browserVars, pager>>

Trending(query) ==
    \E order \in Orders(Len(trendingItems(query, moviesFile, seriesFile))) :
        Exchange(Request("/api/trending", undefined, query),
                 trending(query, moviesFile, seriesFile, order))

Stats == Exchange(Request("/api/stats", undefined, EmptyQuery), stats(moviesFile, seriesFile))

Genres ==
    Exchange(Request("/api/genres", undefined, EmptyQuery), genres(moviesFile, seriesFile))

Health(now) == Exchange(Request("/api/health", undefined, EmptyQuery), health(now))

UnknownEndpoint == Exchange(Request("/api/*", undefined, EmptyQuery), endpointNotFound)

\* a request to /api/ whose JSON body does not parse: express.json() hands the
\* error to the global error handler, no route runs
MalformedBody ==
    Exchange(Request("malformed body", undefined, EmptyQuery),
             globalErrorHandler(nodeEnv, sSyntaxError))

\* the response has been delivered; the server keeps nothing of the exchange
Close ==
    /\ ~Idle
    /\ req' = NoReq
    /\ resp' = NoResp
    /\ filesRead' = {}
    /\ UNCHANGED <<moviesFile, seriesFile, hits, nodeEnv, browserVars, pager>>

\* windowMs has passed: the limiter forgets its count
WindowExpires ==
    /\ Idle
    /\ hits > 0
    /\ hits' = 0
    /\ UNCHANGED <<moviesFile, seriesFile, req, resp, filesRead, nodeEnv, browserVars, pager>>

\* somebody edits, removes or damages a data file on disk
EditMovies(file) ==
    /\ Idle
    /\ moviesFile # file
    /\ moviesFile' = file
    /\ UNCHANGED <<seriesFile, hits, req, resp, filesRead, nodeEnv, browserVars, pager>>

EditSeries(file) ==
    /\ Idle
    /\ seriesFile # file
    /\ seriesFile' = file
    /\ UNCHANGED <<moviesFile, hits, req, resp, filesRead, nodeEnv, browserVars, pager>>

----------------------------------------------------------------------------
(* The browser: the series player page *)

\* null, where the script keeps an object
null == [null |-> TRUE]

\* the src of the episode iframe before the script has set it
sBlank == <<>>

\* `source${n}`
sourceSlot(n) ==
    CASE n = 1 -> "source1" [] n = 2 -> "source2" [] n = 3 -> "source3"
      [] OTHER -> "source"

\* new SeriesPlayer(), before init() runs
newSeriesPlayer ==
    [currentSeries |-> null, currentSeason |-> 1, currentEpisode |-> 1,
     currentSource |-> 1,
     iframeSrc |-> sBlank,   \* document.getElementById('episode-iframe').src
     hidden |-> FALSE,       \* showError has hidden the iframe
     loading |-> {}]         \* the series names whose getSeriesInfo is in flight

\* SeriesPlayer.loadPlayer: the player afterwards
loadPlayer(p) ==
    LET series == p.currentSeries
        eps == series.episodes
        i == findIndex(eps, LAMBDA ep : /\ ep.season = p.currentSeason
                                       /\ ep.episode = p.currentEpisode)
    IN IF series = null THEN p
       ELSE IF "episodes" \notin DOMAIN series THEN p
       ELSE IF i = 0 THEN p
       ELSE IF "sources" \notin DOMAIN eps[i] THEN p
       ELSE [p EXCEPT !.iframeSrc =
                orElse(prop(eps[i].sources, sourceSlot(p.currentSource)),
                       prop(eps[i].sources, "source1"))]

\* SeriesPlayer.showError
showError(p) == [p EXCEPT !.hidden = TRUE]

\* SeriesPlayer.loadSeries up to its await: the request is on its way
LoadSeries(seriesName) ==
    /\ seriesName \notin seriesPlayer.loading
    /\ seriesPlayer' = [seriesPlayer EXCEPT !.loading = @ \cup {seriesName}]
    /\ UNCHANGED <<serverVars, searchManager, pager>>

\* SeriesPlayer.loadSeries after its await; delivered is whether an answer of
\* the route arrived (otherwise fetch failed or the limiter answered 429)
SeriesLoaded(seriesName, delivered) ==
    LET response == getSeriesInfo(seriesName, seriesFile)
        p == [seriesPlayer EXCEPT !.loading = @ \ {seriesName}]
    IN /\ seriesName \in seriesPlayer.loading
       /\ seriesPlayer' =
             IF delivered /\ response.status = 200 /\ response.body.success
             THEN loadPlayer([p EXCEPT !.currentSeries = response.body.data])
             ELSE showError(p)
       /\ UNCHANGED <<serverVars, searchManager, pager>>

\* SeriesPlayer.selectSeason; with no series loaded displaySeasons throws after
\* the two assignments
SelectSeason(season) ==
    /\ seriesPlayer' =
          loadPlayer([seriesPlayer EXCEPT !.currentSeason = season,
                                           !.currentEpisode = 1])
    /\ UNCHANGED <<serverVars, searchManager, pager>>

\* SeriesPlayer.selectEpisode
SelectEpisode(episode) ==
    /\ seriesPlayer' = loadPlayer([seriesPlayer EXCEPT !.currentEpisode = episode])
    /\ UNCHANGED <<serverVars, searchManager, pager>>

\* SeriesPlayer.changeSource
ChangeSource(sourceNumber) ==
    /\ seriesPlayer' = loadPlayer([seriesPlayer EXCEPT !.currentSource = sourceNumber])
    /\ UNCHANGED <<serverVars, searchManager, pager>>

----------------------------------------------------------------------------
(* The browser: the autocomplete search box *)

\* the delay handleSearch gives setTimeout, in milliseconds
DebounceMs == 300

\* the limit showSuggestions asks for
SuggestionLimit == 8

\* new SearchManager(), before init() runs; the inputs are keyed by isMobile
newSearchManager ==
    [value |-> [m \in BOOLEAN |-> <<>>],   \* searchInput.value, mobileSearchInput.value
     searchTimeout |-> 0,                  \* this.searchTimeout, 0 for null
     timers |-> {},                        \* the timers set and not yet run or cleared
     shown |-> [m \in BOOLEAN |-> FALSE],  \* suggestionsList.style.display = 'block'
     calls |-> <<>>,                       \* the search requests in flight
     sinceInput |-> DebounceMs,            \* ms since the last input event, capped
     issued |-> 0,                         \* the suggestions requests sent so far
     listed |-> [m \in BOOLEAN |-> 0],     \* which request's results the list holds
     newest |-> [m \in BOOLEAN |-> 0]]     \* the latest request answered for the input

\* the timer keeps running
clearTimeout_noop(timers, id) == timers

clearTimeout(timers, id) == {t \in timers : t.id # id}

\* the id setTimeout returns: one no pending timer has and searchTimeout does not hold
timerId(sm) ==
    CHOOSE n \in 1..(Cardinality(sm.timers) + 2) :
        /\ n # sm.searchTimeout
        /\ \A t \in sm.timers : t.id # n
        /\ \A k \in 1..(n - 1) : k = sm.searchTimeout \/ \E t \in sm.timers : t.id = k

\* SearchManager.hideSuggestions
hideSuggestions(sm, isMobile) == [sm EXCEPT !.shown[isMobile] = FALSE]

\* SearchManager.handleSearch, event.target.value being value
handleSearch(sm, value, isMobile) ==
    LET query == trim(value)
        cleared == [sm EXCEPT !.timers = clearTimeout(@, sm.searchTimeout)]
        id == timerId(cleared)
    IN IF Len(query) < 2 THEN hideSuggestions(cleared, isMobile)
       ELSE [cleared EXCEPT
                !.searchTimeout = id,
                !.timers = @ \cup {[id |-> id, query |-> query, isMobile |-> isMobile,
                                     remaining |-> DebounceMs]}]

\* a request of ViewMaxAPI.search in flight; seq numbers the suggestions requests
\* in the order they were sent
searchCall(query, isMobile, origin, limit, seq) ==
    [query |-> query, isMobile |-> isMobile, origin |-> origin, limit |-> limit,
     seq |-> seq]

\* SearchManager.init: a q parameter in the page's URL is searched at once
initSearchManager(searchQuery) ==
    IF Truthy(searchQuery)
    THEN [newSearchManager EXCEPT
             !.calls = <<searchCall(searchQuery, FALSE, "results", undefined, 0)>>]
    ELSE newSearchManager

\* an input event on one of the two search inputs
Input(isMobile, value) ==
    /\ searchManager' =
          handleSearch([searchManager EXCEPT !.value[isMobile] = value,
                                             !.sinceInput = 0],
                       value, isMobile)
    /\ UNCHANGED <<serverVars, seriesPlayer, pager>>

\* 100 ms pass
Tick ==
    /\ searchManager' =
          [searchManager EXCEPT
              !.sinceInput = IF @ + 100 > DebounceMs THEN DebounceMs ELSE @ + 100,
              !.timers = {[t EXCEPT !.remaining = IF @ < 100 THEN 0 ELSE @ - 100] :
                            t \in @}]
    /\ UNCHANGED <<serverVars, seriesPlayer, pager>>

\* a timer's callback runs: SearchManager.showSuggestions up to its await
TimerFires(t) ==
    /\ t \in searchManager.timers
    /\ t.remaining = 0
    /\ Len(searchManager.calls) < MaxCalls
    /\ searchManager.issued < MaxRequests
    /\ searchManager' =
          [searchManager EXCEPT
              !.timers = @ \ {t},
              !.issued = @ + 1,
              !.calls = Append(@, searchCall(t.query, t.isMobile, "suggestions",
                                             SuggestionLimit, searchManager.issued + 1))]
    /\ UNCHANGED <<serverVars, seriesPlayer, pager>>

\* showSuggestions or performSearch after its await; delivered is whether the
\* search answered with success (otherwise fetchData threw)
SearchReturns(i, delivered) ==
    LET call == searchManager.calls[i]
        rest == [k \in 1..(Len(searchManager.calls) - 1) |->
                    searchManager.calls[IF k < i THEN k ELSE k + 1]]
        displayed == delivered /\ call.origin = "suggestions"
    IN /\ i \in 1..Len(searchManager.calls)
       /\ searchManager' =
             [searchManager EXCEPT
                 !.calls = rest,
                 !.shown[call.isMobile] = IF displayed THEN TRUE ELSE @,
                 !.listed[call.isMobile] = IF displayed THEN call.seq ELSE @,
                 !.newest[call.isMobile] =
                     IF displayed /\ call.seq > @ THEN call.seq ELSE @]
       /\ UNCHANGED <<serverVars, seriesPlayer, pager>>

\* no browser page takes part
NoBrowser == seriesPlayer = newSeriesPlayer /\ searchManager = newSearchManager

----------------------------------------------------------------------------
(* A client reading a list endpoint page by page *)

\* no walk has begun
NoPager == [phase |-> "idle"]

\* the walk as it begins: offset 0, the data files as they are now
newPager(route, query, limit, mFile, sFile) ==
    [phase |-> "walking",     \* "walking", then "ended" once hasMore was false,
                              \* then "beyond" after one more page was asked for
     route |-> route,
     query |-> query,         \* the fixed parameters; limit and offset are added
     limit |-> limit,         \* L
     offset |-> 0,            \* the offset of the next request
     pages |-> <<>>,          \* data and hasMore of the answers so far
     mFile |-> mFile,
     sFile |-> sFile,
     undisturbed |-> TRUE]    \* every page was served from mFile and sFile

\* the query string of the pager's next request
pageQuery(p) ==
    [p.query EXCEPT !.limit = decimal(p.limit), !.offset = decimal(p.offset)]

\* the route handler's answer to the pager's next request
pageServed(p, mFile, sFile) ==
    CASE p.route = "/api/movies" -> getMovies(pageQuery(p), mFile)
      [] p.route = "/api/series" -> getSeries(pageQuery(p), sFile)
      [] p.route = "/api/search" -> search(pageQuery(p), mFile, sFile)

\* the pager after the answer out: an answer that is no page ends the walk
received(p, out, mFile, sFile) ==
    IF out.status # 200 THEN [p EXCEPT !.phase = "failed"]
    ELSE [p EXCEPT
             !.phase = IF p.phase = "ended" THEN "beyond"
                       ELSE IF out.body.hasMore THEN "walking" ELSE "ended",
             !.offset = @ + p.limit,
             !.pages = Append(@, [data |-> out.body.data,
                                  hasMore |-> out.body.hasMore]),
             !.undisturbed = @ /\ mFile = p.mFile /\ sFile = p.sFile]

\* the client sets out to read a list from its first page
StartWalk(route, query, limit) ==
    /\ pager = NoPager
    /\ pager' = newPager(route, query, limit, moviesFile, seriesFile)
    /\ UNCHANGED <<serverVars, browserVars>>

\* the client asks for the next page; a 429 leaves it where it is, to ask again
FetchPage ==
    /\ pager.phase \in {"walking", "ended"}
    /\ Served(Request(pager.route, undefined, pageQuery(pager)),
              pageServed(pager, moviesFile, seriesFile))
    /\ pager' = IF limited(hits) THEN pager
                ELSE received(pager, pageServed(pager, moviesFile, seriesFile),
                              moviesFile, seriesFile)

----------------------------------------------------------------------------
(* Data and requests the specifications draw from *)

Title(name, description, genre, rating) ==
    [name |-> name, description |-> description, genre |-> genre,
     rating |-> rating, releaseDate |-> <<"2", "0", "2", "0">>, image |-> <<"i">>]

Lists(pool, n) == UNION {[1..k -> pool] : k \in 0..n}

Files(pool) ==
    {[state |-> "ok", content |-> c] : c \in Lists(pool, MaxItems)}
      \cup {[state |-> st, content |-> <<>>] : st \in {"missing", "corrupt"}}

u1 == <<"u", "1">>
u2 == <<"u", "2">>
u3 == <<"u", "3">>

MovieAb == Title(<<"A", "b">>, <<"x">>, <<"B", ",", "c">>, <<"9">>)
             @@ [sources |-> [source1 |-> u1, source2 |-> u2]]
MovieC == Title(<<"c">>, <<"b", "a">>, <<"A">>, <<"7">>)
             @@ [sources |-> [source1 |-> u3]]

Episode(season, episode, title) ==
    [season |-> season, episode |-> episode, title |-> title]

SeriesAb == Title(<<"a", "b">>, <<"d">>, <<"c", ",", " ", "A">>, <<"8">>)
              @@ [episodes |-> <<Episode(1, 1, <<"p">>) @@ [sources |-> [source1 |-> u1]]>>]
SeriesCa == Title(<<"C", "a">>, <<"b">>, <<"B">>, <<"6">>)

ListMovies == {MovieAb, MovieC}
ListSeries == {SeriesAb, SeriesCa}

SearchTerms == {undefined, <<"a">>, <<"A", "B">>, <<"z">>}
GenreTerms == {undefined, sAll, <<"c">>, <<"a">>}
Limits == {undefined, <<"0">>, <<"1">>, <<"2">>, <<"-", "1">>}
Offsets == {undefined, <<"1">>, <<"x">>}
Types == {undefined, <<>>, <<"m", "o", "v", "i", "e">>, <<"s", "e", "r", "i", "e", "s">>,
          sAll, <<"x">>}
SearchQs == {undefined, <<>>, <<"A", "B">>, <<"z">>}

ListQueries ==
    {[EmptyQuery EXCEPT !.search = s, !.genre = g, !.limit = l, !.offset = o] :
        s \in SearchTerms, g \in GenreTerms, l \in Limits, o \in Offsets}

SearchQueries ==
    {[EmptyQuery EXCEPT !.q = s, !.type = t, !.genre = g, !.limit = l, !.offset = o] :
        s \in SearchQs, t \in Types, g \in {undefined, <<"c">>, <<"a">>},
        l \in {undefined, <<"1">>}, o \in {undefined, <<"1">>}}
      \cup {[EmptyQuery EXCEPT !.q = s, !.type = t, !.genre = sAll, !.limit = l] :
              s \in SearchQs, t \in {undefined, sAll}, l \in {undefined, <<"1">>}}

\* lists of at most n distinct records of the pool, in every order
Arrangements(pool, n) ==
    {l \in Lists(pool, n) : \A i, j \in 1..Len(l) : i # j => l[i] # l[j]}

DistinctFiles(pool) ==
    {[state |-> "ok", content |-> c] : c \in Arrangements(pool, MaxItems)}
      \cup {[state |-> st, content |-> <<>>] : st \in {"missing", "corrupt"}}

\* movies for the resolver: with and without sources, slots missing or empty
MovieBare == Title(<<"a", "B">>, <<"x">>, <<"B">>, <<"5">>)
MovieGap == Title(<<"c">>, <<"x">>, <<"B">>, <<"5">>)
              @@ [sources |-> [source1 |-> u3, source3 |-> <<>>]]
MovieEmpty == Title(<<"D">>, <<"x">>, <<"B">>, <<"5">>) @@ [sources |-> <<>>]

IframeMovies == {MovieAb, MovieBare, MovieGap, MovieEmpty}

WithSources(ep, sources) == ep @@ [sources |-> sources]

\* first episode playable, second one without sources
SeriesPilot ==
    Title(<<"a", "b">>, <<"d">>, <<"c", ",", " ", "A">>, <<"8">>)
      @@ [episodes |-> <<WithSources(Episode(1, 1, <<"p">>),
                                     [source1 |-> u1, source2 |-> u2]),
                         Episode(1, 2, <<"q">>)>>]
\* first episode without sources, a later one without source1
SeriesLate ==
    Title(<<"c">>, <<"d">>, <<"B">>, <<"6">>)
      @@ [episodes |-> <<Episode(2, 1, <<"p">>),
                         WithSources(Episode(1, 1, <<"q">>),
                                     [source2 |-> u2, source3 |-> <<>>])>>]
\* no episodes key
SeriesNoList == Title(<<"d">>, <<"d">>, <<"B">>, <<"6">>)
\* an empty episode list
SeriesEmpty == Title(<<"D">>, <<"d">>, <<"B">>, <<"6">>) @@ [episodes |-> <<>>]

IframeSeries == {SeriesPilot, SeriesLate, SeriesNoList, SeriesEmpty}

Titles == {<<"A", "B">>, <<"c">>, <<"d">>, <<"z">>}
Sources == {undefined, sPrimary, sSecondary, sTertiary, <<"x">>}
Seasons == {undefined, <<"1">>, <<"2">>}
EpisodeNumbers == {undefined, <<"1">>, <<"2">>}

IframeQueries ==
    {[EmptyQuery EXCEPT !.title = t, !.source = s, !.season = se, !.episode = e] :
        t \in Titles, s \in Sources, se \in Seasons, e \in EpisodeNumbers}
      \cup {[EmptyQuery EXCEPT !.title = t, !.source = s, !.season = se] :
              t \in {undefined, <<>>}, s \in {undefined, sSecondary},
              se \in {undefined, <<"1">>}}

----------------------------------------------------------------------------
(* The list endpoints *)

InitList ==
    /\ moviesFile \in Files(ListMovies)
    /\ seriesFile \in Files(ListSeries)
    /\ hits \in {0, RateLimitMax}
    /\ req = NoReq
    /\ resp = NoResp
    /\ filesRead = {}
    /\ nodeEnv = "production"
    /\ NoBrowser
    /\ pager = NoPager

NextList ==
    \/ \E query \in ListQueries : GetMovies(query)
    \/ \E query \in ListQueries : GetSeries(query)
    \/ \E query \in SearchQueries : Search(query)
    \/ Close
    \/ WindowExpires
    \/ \E file \in Files(ListMovies) : EditMovies(file)
    \/ \E file \in Files(ListSeries) : EditSeries(file)

SpecList == InitList /\ [][NextList]_vars

----------------------------------------------------------------------------
(* The resolver endpoint *)

InitIframe ==
    /\ moviesFile \in DistinctFiles(IframeMovies)
    /\ seriesFile \in DistinctFiles(IframeSeries)
    /\ hits \in {0, RateLimitMax}
    /\ req = NoReq
    /\ resp = NoResp
    /\ filesRead = {}
    /\ nodeEnv = "production"
    /\ NoBrowser
    /\ pager = NoPager

NextIframe ==
    \/ \E query \in IframeQueries : Iframe(query)
    \/ Close
    \/ WindowExpires
    \/ \E file \in DistinctFiles(IframeMovies) : EditMovies(file)
    \/ \E file \in DistinctFiles(IframeSeries) : EditSeries(file)

SpecIframe == InitIframe /\ [][NextIframe]_vars

----------------------------------------------------------------------------
(* The whole API *)

Names == {<<"A", "B">>, <<"c">>, <<"z">>}

FewListQueries ==
    {[EmptyQuery EXCEPT !.search = s, !.genre = g, !.limit = l] :
        s \in {undefined, <<"a">>}, g \in {undefined, <<"c">>}, l \in {undefined, <<"1">>}}

FewSearchQueries ==
    {[EmptyQuery EXCEPT !.q = s, !.type = t, !.genre = g, !.limit = l] :
        s \in {undefined, <<>>, <<"a">>}, t \in {undefined, <<"s", "e", "r", "i", "e", "s">>},
        g \in {undefined, <<"c">>}, l \in {undefined, <<"1">>}}

EpisodeQueries ==
    {[EmptyQuery EXCEPT !.season = se, !.episode = e] :
        se \in {undefined, <<"1">>, <<"2">>}, e \in {undefined, <<"1">>, <<"2">>}}

FewIframeQueries ==
    {[EmptyQuery EXCEPT !.title = t, !.source = s, !.season = se, !.episode = se] :
        t \in {undefined, <<>>, <<"A", "B">>, <<"c">>}, s \in {undefined, sSecondary},
        se \in {undefined, <<"1">>}}

TrendingQueries ==
    {[EmptyQuery EXCEPT !.type = t, !.limit = l] :
        t \in {undefined, <<"m", "o", "v", "i", "e">>, <<"s", "e", "r", "i", "e", "s">>},
        l \in {undefined, <<"1">>, <<"2">>, <<"3">>}}

Clock == {<<"t", "0">>, <<"t", "1">>}

AllMovies == {MovieAb, MovieC}
AllSeries == {SeriesPilot, SeriesLate}

\* NODE_ENV as deployments set it; "unset" when the variable is not set
Modes == {sDevelopment, "production", "unset"}

Init ==
    /\ moviesFile \in DistinctFiles(AllMovies)
    /\ seriesFile \in DistinctFiles(AllSeries)
    /\ hits \in {0, RateLimitMax}
    /\ req = NoReq
    /\ resp = NoResp
    /\ filesRead = {}
    /\ nodeEnv \in Modes
    /\ NoBrowser
    /\ pager = NoPager

Next ==
    \/ \E query \in FewListQueries : GetMovies(query)
    \/ \E name \in Names : GetMovie(name)
    \/ \E query \in FewListQueries : GetSeries(query)
    \/ \E name \in Names : GetSeriesInfo(name)
    \/ \E name \in Names, query \in EpisodeQueries : GetEpisodes(name, query)
    \/ \E query \in FewSearchQueries : Search(query)
    \/ \E query \in FewIframeQueries : Iframe(query)
    \/ \E query \in TrendingQueries : Trending(query)
    \/ Stats
    \/ Genres
    \/ \E now \in Clock : Health(now)
    \/ UnknownEndpoint
    \/ MalformedBody
    \/ Close
    \/ WindowExpires
    \/ \E file \in DistinctFiles(AllMovies) : EditMovies(file)
    \/ \E file \in DistinctFiles(AllSeries) : EditSeries(file)

Spec == Init /\ [][Next]_vars

----------------------------------------------------------------------------
(* The aggregator endpoints *)

\* a genre string that ends in a comma and a blank
MovieTrail == Title(<<"e">>, <<"x">>, <<"B", ",", " ">>, <<"5">>)

StatsMovies == {MovieAb, MovieC, MovieTrail}
StatsSeries == {SeriesPilot, SeriesLate, SeriesNoList, SeriesEmpty}

InitStats ==
    /\ moviesFile \in DistinctFiles(StatsMovies)
    /\ seriesFile \in DistinctFiles(StatsSeries)
    /\ hits \in {0, RateLimitMax}
    /\ req = NoReq
    /\ resp = NoResp
    /\ filesRead = {}
    /\ nodeEnv = "production"
    /\ NoBrowser
    /\ pager = NoPager

NextStats ==
    \/ Stats
    \/ Genres
    \/ Close
    \/ WindowExpires
    \/ \E file \in DistinctFiles(StatsMovies) : EditMovies(file)
    \/ \E file \in DistinctFiles(StatsSeries) : EditSeries(file)

SpecStats == InitStats /\ [][NextStats]_vars

----------------------------------------------------------------------------
(* The series player page over a server that answers *)

\* two seasons; season 2 has no episode 1 with sources and an episode 2 that plays
SeriesTwoSeasons ==
    Title(<<"d">>, <<"d">>, <<"B">>, <<"6">>)
      @@ [episodes |-> <<WithSources(Episode(1, 1, <<"p">>),
                                     [source1 |-> u1, source2 |-> u2]),
                         WithSources(Episode(1, 2, <<"q">>), [source1 |-> u3]),
                         Episode(2, 1, <<"r">>),
                         WithSources(Episode(2, 2, <<"s">>),
                                     [source1 |-> u2, source3 |-> u1])>>]

PlayerSeries == {SeriesPilot, SeriesTwoSeasons, SeriesNoList}
PlayerNames == {<<"A", "B">>, <<"d">>, <<"z">>}
SeasonNumbers == {1, 2}
EpisodeChoices == {1, 2}
SourceNumbers == {1, 2, 3}

\* SeriesPlayer.init: the series named by the URL or by localStorage is loaded
InitSeriesPlayer ==
    /\ moviesFile = [state |-> "ok", content |-> <<>>]
    /\ seriesFile \in DistinctFiles(PlayerSeries)
    /\ hits = 0
    /\ req = NoReq
    /\ resp = NoResp
    /\ filesRead = {}
    /\ nodeEnv = "production"
    /\ seriesPlayer \in {[newSeriesPlayer EXCEPT !.loading = l] :
                            l \in {{}} \cup {{n} : n \in PlayerNames}}
    /\ searchManager = newSearchManager
    /\ pager = NoPager

NextSeriesPlayer ==
    \/ \E seriesName \in PlayerNames : LoadSeries(seriesName)
    \/ \E seriesName \in PlayerNames, delivered \in BOOLEAN :
          SeriesLoaded(seriesName, delivered)
    \/ \E season \in SeasonNumbers : SelectSeason(season)
    \/ \E episode \in EpisodeChoices : SelectEpisode(episode)
    \/ \E sourceNumber \in SourceNumbers : ChangeSource(sourceNumber)

SpecSeriesPlayer == InitSeriesPlayer /\ [][NextSeriesPlayer]_vars

----------------------------------------------------------------------------
(* The search box *)

InputValues == {<<>>, <<"a">>, <<"a", "b">>, <<" ", "a", "b">>, <<"b", "c", " ">>}
UrlQueries == {undefined, <<"a">>}

InitSearchBox ==
    /\ moviesFile = [state |-> "ok", content |-> <<>>]
    /\ seriesFile = [state |-> "ok", content |-> <<>>]
    /\ hits = 0
    /\ req = NoReq
    /\ resp = NoResp
    /\ filesRead = {}
    /\ nodeEnv = "production"
    /\ seriesPlayer = newSeriesPlayer
    /\ searchManager \in {initSearchManager(q) : q \in UrlQueries}
    /\ pager = NoPager

NextSearchBox ==
    \/ \E isMobile \in BOOLEAN, value \in InputValues : Input(isMobile, value)
    \/ Tick
    \/ \E t \in searchManager.timers : TimerFires(t)
    \/ \E i \in 1..MaxCalls, delivered \in BOOLEAN : SearchReturns(i, delivered)

SpecSearchBox == InitSearchBox /\ [][NextSearchBox]_vars

----------------------------------------------------------------------------
(* Reading the list endpoints page by page *)

PagerRoutes == {"/api/movies", "/api/series", "/api/search"}
PagerTerms == {undefined, <<"a">>}
PagerGenres == {undefined, <<"c">>}
PageSizes == {1, 2}

\* the fixed parameters of a walk: search on the two lists, q on the universal search
PagerQuery(route, term, genre) ==
    IF route = "/api/search"
    THEN [EmptyQuery EXCEPT !.q = term, !.genre = genre]
    ELSE [EmptyQuery EXCEPT !.search = term, !.genre = genre]

PagerSeriesFiles ==
    {[state |-> "ok", content |-> <<SeriesAb, SeriesCa>>],
     [state |-> "ok", content |-> <<>>],
     [state |-> "missing", content |-> <<>>]}

\* what movies.json may be edited to while pages are read
PagerEdits == {[state |-> "ok", content |-> <<MovieC>>]}

InitPaging ==
    /\ moviesFile \in DistinctFiles(ListMovies)
    /\ seriesFile \in PagerSeriesFiles
    /\ hits = 0
    /\ req = NoReq
    /\ resp = NoResp
    /\ filesRead = {}
    /\ nodeEnv = "production"
    /\ NoBrowser
    /\ pager = NoPager

NextPaging ==
    \/ \E route \in PagerRoutes, term \in PagerTerms, genre \in PagerGenres,
          limit \in PageSizes :
          StartWalk(route, PagerQuery(route, term, genre), limit)
    \/ FetchPage
    \/ Close
    \/ WindowExpires
    \/ \E file \in PagerEdits : EditMovies(file)

SpecPaging == InitPaging /\ [][NextPaging]_vars

----------------------------------------------------------------------------
(* Properties of the list endpoints *)

ListRoutes == {"/api/movies", "/api/series", "/api/search"}

\* the request reached its route handler and was answered by it
Answered == ~Idle /\ resp.status # 429

\* the search term of a list request: search on /api/movies and /api/series, q on /api/search
termOf(r) == IF r.route = "/api/search" THEN r.query.q ELSE r.query.search

\* what a data file holds, a missing or damaged file holding nothing
stored(file) == IF file.state = "ok" THEN file.content ELSE <<>>

\* the collection a list request ranges over, in stored order
collectionOf(r) ==
    LET t == r.query.type
    IN CASE r.route = "/api/movies" -> stored(moviesFile)
         [] r.route = "/api/series" -> stored(seriesFile)
         [] r.route = "/api/search" ->
              (IF t \in {undefined, <<>>, sAll, <<"m", "o", "v", "i", "e">>}
               THEN withType(stored(moviesFile), "movie") ELSE <<>>)
              \o (IF t \in {undefined, <<>>, sAll, <<"s", "e", "r", "i", "e", "s">>}
                  THEN withType(stored(seriesFile), "series") ELSE <<>>)

occursIn(term, item) ==
    \E f \in {"name", "description", "genre"} :
        includes(toLowerCase(item[f]), toLowerCase(term))

searchHolds(r, item) == Truthy(termOf(r)) => occursIn(termOf(r), item)

genreActive(r) == Truthy(r.query.genre) /\ r.query.genre # sAll

genreHolds(r, item) ==
    genreActive(r) => includes(toLowerCase(item.genre), toLowerCase(r.query.genre))

filteredOf(r) ==
    SelectSeq(collectionOf(r), LAMBDA m : searchHolds(r, m) /\ genreHolds(r, m))

isNat(v) == v # <<>> /\ \A i \in 1..Len(v) : v[i] \in Digits

validPage(r) ==
    /\ r.query.limit = undefined \/ isNat(r.query.limit)
    /\ r.query.offset = undefined \/ isNat(r.query.offset)

limitOf(r) == IF r.query.limit = undefined THEN 20 ELSE digitsValue(r.query.limit, 0)
offsetOf(r) == IF r.query.offset = undefined THEN 0 ELSE digitsValue(r.query.offset, 0)

ListAnswered ==
    /\ Answered
    /\ req.route \in ListRoutes
    /\ req.route = "/api/search" => Truthy(req.query.q)

\* C1: on the list endpoints, for every valid limit and offset (non-negative
\* integers, 20 and 0 by default), the page has at most limit items, total is the
\* size of the filtered collection and hasMore holds iff offset + limit < total.
C1_PageWithinLimit ==
    (ListAnswered /\ validPage(req)) =>
        /\ resp.status = 200
        /\ Len(resp.body.data) <= limitOf(req)
        /\ resp.body.total = Len(filteredOf(req))
        /\ resp.body.hasMore <=> (offsetOf(req) + limitOf(req) < resp.body.total)

C1_Witness ==
    /\ ListAnswered
    /\ req.query.limit = <<"1">>
    /\ req.query.offset = <<"1">>
    /\ Len(resp.body.data) = 1
    /\ resp.body.total = 2
    /\ ~resp.body.hasMore

\* C6: the genre filter is a case-insensitive substring test on the genre field,
\* AND-ed with the search filter: the result is the same with the genre filter
\* applied first, and is exactly the records satisfying both, in stored order.
C6_GenreAndSearch ==
    (ListAnswered /\ genreActive(req)) =>
        LET coll == collectionOf(req)
            genreFirst ==
                SelectSeq(SelectSeq(coll, LAMBDA m : genreHolds(req, m)),
                          LAMBDA m : searchHolds(req, m))
            limit == orDefault(req.query.limit, DefaultLimit)
            offset == orDefault(req.query.offset, DefaultOffset)
        IN /\ resp.status = 200
           /\ resp.body.total = Len(genreFirst)
           /\ resp.body.data
                = slice(genreFirst, parseInt(offset), plus(parseInt(offset), parseInt(limit)))
           /\ genreFirst = filteredOf(req)

\* a request where each filter alone keeps a record the other one drops
C6_Witness ==
    /\ ListAnswered
    /\ genreActive(req)
    /\ Truthy(termOf(req))
    /\ resp.body.total = 1
    /\ \E i, j \in 1..Len(collectionOf(req)) :
          /\ searchHolds(req, collectionOf(req)[i]) /\ ~genreHolds(req, collectionOf(req)[i])
          /\ genreHolds(req, collectionOf(req)[j]) /\ ~searchHolds(req, collectionOf(req)[j])

\* a term is given and occurs in no title of the collection searched
termOccursNowhere(r) ==
    /\ Truthy(termOf(r))
    /\ \A i \in 1..Len(collectionOf(r)) : ~occursIn(termOf(r), collectionOf(r)[i])

\* C7 as stated: a search whose term occurs in no title's name, description or
\* genre yields success with empty data, total 0 and hasMore false, for every
\* limit and offset.
C7_AsStated ==
    (ListAnswered /\ termOccursNowhere(req)) =>
        /\ resp.status = 200
        /\ resp.body.data = <<>>
        /\ resp.body.total = 0
        /\ ~resp.body.hasMore

\* C7, amended: such a search yields success with empty data and total 0 for
\* every limit and offset, and hasMore false for every valid (non-negative
\* integer) limit and offset.
C7_NoMatchIsEmpty ==
    (ListAnswered /\ termOccursNowhere(req)) =>
        /\ resp.status = 200
        /\ resp.body.data = <<>>
        /\ resp.body.total = 0
        /\ validPage(req) => ~resp.body.hasMore

C7_Witness ==
    /\ ListAnswered
    /\ termOccursNowhere(req)
    /\ Len(collectionOf(req)) = 2
    /\ req.query.limit = <<"0">>
    /\ resp.body.total = 0
    /\ ~resp.body.hasMore

----------------------------------------------------------------------------
(* Properties of the resolver *)

IframeAnswered == Answered /\ req.route = "/api/iframe" /\ Truthy(req.query.title)

\* the positions of the records of coll named t, compared case-insensitively
titled(coll, t) ==
    {i \in 1..Len(coll) : toLowerCase(coll[i].name) = toLowerCase(t)}

least(S) == CHOOSE i \in S : \A j \in S : i <= j

movieExists == titled(stored(moviesFile), req.query.title) # {}
theMovie == stored(moviesFile)[least(titled(stored(moviesFile), req.query.title))]

seriesExists == titled(stored(seriesFile), req.query.title) # {}
theShow == stored(seriesFile)[least(titled(stored(seriesFile), req.query.title))]
theEpisodes == IF "episodes" \in DOMAIN theShow THEN theShow.episodes ELSE <<>>

fromMovie ==
    /\ resp.status = 200
    /\ resp.body.data.type = "movie"
    /\ resp.body.data.title = theMovie.name
    /\ resp.body.data.availableSources = DOMAIN theMovie.sources

\* C2 as stated: whenever a movie with the requested title exists, the response
\* is resolved from that movie and the series collection is never consulted,
\* even when the matched movie has no sources.
C2_AsStated ==
    (IframeAnswered /\ movieExists) =>
        /\ resp.status = 200
        /\ resp.body.data.type = "movie"
        /\ resp.body.data.title = theMovie.name
        /\ "series.json" \notin filesRead

\* C2, amended: the movie collection is consulted first; whenever the first movie
\* with the requested title carries a sources object, even an empty one, the
\* response is resolved from that movie and the series collection is not
\* consulted; when it carries no sources object, or no movie matches, the
\* series collection is consulted.
C2_MovieFirst ==
    IframeAnswered =>
        /\ "movies.json" \in filesRead
        /\ (movieExists /\ "sources" \in DOMAIN theMovie)
              => (fromMovie /\ "series.json" \notin filesRead)
        /\ ~(movieExists /\ "sources" \in DOMAIN theMovie)
              => "series.json" \in filesRead

\* a movie with an empty sources object shadows a series of the same name
C2_Witness ==
    /\ IframeAnswered
    /\ movieExists
    /\ seriesExists
    /\ "sources" \in DOMAIN theMovie
    /\ theMovie.sources = <<>>
    /\ fromMovie
    /\ resp.body.data.iframe = undefined
    /\ filesRead = {"movies.json"}

\* the slot a selector names
slotOf(source) ==
    CASE source = sPrimary -> "source1"
      [] source = sSecondary -> "source2"
      [] source = sTertiary -> "source3"
      [] OTHER -> "source1"

\* the sources of the record an answer names
answeredSources ==
    IF resp.body.data.type = "movie" THEN theMovie.sources
    ELSE LET i == CHOOSE i \in 1..Len(theEpisodes) :
                      /\ theEpisodes[i].season = resp.body.data.season
                      /\ theEpisodes[i].episode = resp.body.data.episode
         IN theEpisodes[i].sources

isNatural(v) == v # undefined /\ v # <<>> /\ \A i \in 1..Len(v) : v[i] \in Digits

\* the positions of the episodes with the requested (season, episode) pair
requestedEpisodes ==
    IF isNatural(req.query.season) /\ isNatural(req.query.episode)
    THEN {i \in 1..Len(theEpisodes) :
            /\ theEpisodes[i].season = digitsValue(req.query.season, 0)
            /\ theEpisodes[i].episode = digitsValue(req.query.episode, 0)}
    ELSE {}

resolvedFrom(ep) ==
    /\ resp.status = 200
    /\ resp.body.data.type = "series"
    /\ resp.body.data.title = theShow.name
    /\ resp.body.data.season = ep.season
    /\ resp.body.data.episode = ep.episode
    /\ resp.body.data.episodeTitle = ep.title
    /\ resp.body.data.availableSources = DOMAIN ep.sources

requestedPlayable ==
    \E i \in requestedEpisodes : "sources" \in DOMAIN theEpisodes[i]

\* C4: for a title that matches a series and no movie, the episode with the
\* requested (season, episode) pair is resolved when both are given and it
\* exists and has sources; in every other case the first episode in stored
\* order is resolved (a series whose first episode cannot be resolved is the
\* subject of C5).
C4_EpisodeOrFirst ==
    (IframeAnswered /\ ~movieExists /\ seriesExists) =>
        IF requestedPlayable
        THEN \E i \in requestedEpisodes : resolvedFrom(theEpisodes[i])
        ELSE (Len(theEpisodes) > 0 /\ "sources" \in DOMAIN theEpisodes[1])
                => resolvedFrom(theEpisodes[1])

\* an out-of-range pair falls back to the first stored episode
C4_Witness ==
    /\ IframeAnswered /\ ~movieExists /\ seriesExists
    /\ req.query.season = <<"2">>
    /\ req.query.episode = <<"2">>
    /\ requestedEpisodes = {}
    /\ Len(theEpisodes) = 2
    /\ resolvedFrom(theEpisodes[1])

\* the requested episode exists but has no sources: the first episode is used
C4_WitnessUnplayable ==
    /\ IframeAnswered /\ ~movieExists /\ seriesExists
    /\ requestedEpisodes = {2}
    /\ ~requestedPlayable
    /\ resolvedFrom(theEpisodes[1])

\* C5: a non-empty title is answered 404 'Content not found' whenever no movie
\* matches and no series matches, or the matched series has no episodes, or the
\* episode that would be used has no sources.
C5_NotFound ==
    (/\ IframeAnswered
     /\ ~movieExists
     /\ \/ ~seriesExists
        \/ Len(theEpisodes) = 0
        \/ ~requestedPlayable /\ "sources" \notin DOMAIN theEpisodes[1])
    => (resp.status = 404 /\ resp.body = [success |-> FALSE, error |-> "Content not found"])

----------------------------------------------------------------------------
(* Properties of the whole API *)

unreadable(file) == file.state # "ok"

\* the file with an empty list in it, if it cannot be read
asEmpty(file) == IF unreadable(file) THEN [state |-> "ok", content |-> <<>>] ELSE file

fileNamed(f) == IF f = "movies.json" THEN moviesFile ELSE seriesFile

sent(out) == [status |-> out.status, body |-> out.body]

\* the responses the route of r can give to r over the files mFile and sFile
answers(r, mFile, sFile) ==
    CASE r.route = "/api/movies" -> {sent(getMovies(r.query, mFile))}
      [] r.route = "/api/movies/:name" -> {sent(getMovie(r.name, mFile))}
      [] r.route = "/api/series" -> {sent(getSeries(r.query, sFile))}
      [] r.route = "/api/series/:name" -> {sent(getSeriesInfo(r.name, sFile))}
      [] r.route = "/api/series/:name/episodes" ->
            {sent(getEpisodes(r.name, r.query, sFile))}
      [] r.route = "/api/search" -> {sent(search(r.query, mFile, sFile))}
      [] r.route = "/api/iframe" -> {sent(iframe(r.query, mFile, sFile))}
      [] r.route = "/api/trending" ->
            {sent(trending(r.query, mFile, sFile, order)) :
                order \in Orders(Len(trendingItems(r.query, mFile, sFile)))}
      [] r.route = "/api/stats" -> {sent(stats(mFile, sFile))}
      [] r.route = "/api/genres" -> {sent(genres(mFile, sFile))}
      [] r.route = "/api/health" -> {sent(health(now)) : now \in Clock}
      [] r.route = "malformed body" -> {sent(globalErrorHandler(nodeEnv, sSyntaxError))}
      [] OTHER -> {sent(endpointNotFound)}

\* C8: a data file that is missing, unreadable or corrupt reads as an empty
\* collection: every endpoint answers exactly as if the file held an empty
\* list, the list endpoints with success, no data and total 0, and no endpoint
\* turns the failed read into a 500.
C8_FailedReadIsEmpty ==
    (Answered /\ \E f \in filesRead : unreadable(fileNamed(f))) =>
        /\ resp \in answers(req, asEmpty(moviesFile), asEmpty(seriesFile))
        /\ (\A f \in filesRead : unreadable(fileNamed(f))) => resp.status # 500
        /\ (/\ req.route \in ListRoutes
            /\ \A f \in filesRead : unreadable(fileNamed(f)))
              => /\ resp.status = 200
                 /\ resp.body.success
                 /\ resp.body.data = <<>>
                 /\ resp.body.total = 0

\* movies.json is gone and the universal search still answers from series.json
C8_Witness ==
    /\ Answered
    /\ req.route = "/api/search"
    /\ moviesFile.state = "missing"
    /\ filesRead = {"movies.json", "series.json"}
    /\ resp.status = 200
    /\ resp.body.total = Len(seriesFile.content)
    /\ resp.body.total > 0

C8_WitnessCorrupt ==
    /\ Answered
    /\ req.route = "/api/stats"
    /\ seriesFile.state = "corrupt"
    /\ moviesFile.state = "ok"
    /\ resp.status = 200
    /\ resp.body.data.totalSeries = 0
    /\ resp.body.data.totalMovies > 0

requiredMissing ==
    \/ req.route = "/api/search" /\ req.query.q \in {undefined, <<>>}
    \/ req.route = "/api/iframe" /\ req.query.title \in {undefined, <<>>}

\* C9: /api/search without a non-empty q and /api/iframe without a non-empty
\* title are answered 400 with success=false, before any data file is read,
\* whatever the data files hold and whatever the other parameters are.
C9_BadRequest ==
    (Answered /\ requiredMissing) =>
        /\ resp.status = 400
        /\ resp.body.success = FALSE
        /\ filesRead = {}

\* an empty q, other parameters given, both files unreadable: still 400
C9_Witness ==
    /\ Answered
    /\ req.route = "/api/search"
    /\ req.query.q = <<>>
    /\ req.query.genre # undefined
    /\ unreadable(moviesFile) /\ unreadable(seriesFile)
    /\ resp.status = 400

C9_WitnessIframe ==
    /\ Answered
    /\ req.route = "/api/iframe"
    /\ req.query.title = undefined
    /\ req.query.source = sSecondary
    /\ resp.status = 400
    /\ resp.body.error = "Title is required"

namedIn(file) == titled(stored(file), req.name) # {}
namedShow == stored(seriesFile)[least(titled(stored(seriesFile), req.name))]
namedEpisodes == IF "episodes" \in DOMAIN namedShow THEN namedShow.episodes ELSE <<>>

\* a season or an episode is requested and no episode of the series has it
noEpisodeRequested ==
    /\ Truthy(req.query.season) \/ Truthy(req.query.episode)
    /\ \A i \in 1..Len(namedEpisodes) :
          \/ /\ Truthy(req.query.season)
             /\ namedEpisodes[i].season # digitsValue(req.query.season, 0)
          \/ /\ Truthy(req.query.episode)
             /\ namedEpisodes[i].episode # digitsValue(req.query.episode, 0)

notFoundWith(error) ==
    resp.status = 404 /\ resp.body = [success |-> FALSE, error |-> error]

missingTitle404 ==
    /\ (req.route = "/api/movies/:name" /\ ~namedIn(moviesFile))
          => notFoundWith("Movie not found")
    /\ (req.route = "/api/series/:name" /\ ~namedIn(seriesFile))
          => notFoundWith("Series not found")
    /\ (req.route = "/api/series/:name/episodes" /\ ~namedIn(seriesFile))
          => notFoundWith("Series not found")

\* C10 as stated: a missing movie, series or episode is answered 404 with a
\* typed error string, on /api/series/:name/episodes also when the requested
\* season/episode matches no episode of an existing series.
C10_AsStated ==
    Answered =>
        /\ missingTitle404
        /\ (/\ req.route = "/api/series/:name/episodes"
            /\ namedIn(seriesFile)
            /\ noEpisodeRequested)
              => (resp.status = 404 /\ resp.body.success = FALSE)

\* C10, amended: a name matching no record is answered 404 with a typed error
\* string on /api/movies/:name, /api/series/:name and /api/series/:name/episodes;
\* a season/episode that matches no episode of an existing series is answered
\* 200 with success and an empty data list.
C10_NotFound ==
    Answered =>
        /\ missingTitle404
        /\ (/\ req.route = "/api/series/:name/episodes"
            /\ namedIn(seriesFile)
            /\ noEpisodeRequested)
              => /\ resp.status = 200
                 /\ resp.body.success
                 /\ resp.body.data = <<>>
                 /\ resp.body.seriesInfo.name = namedShow.name

C10_Witness ==
    /\ Answered
    /\ req.route = "/api/series/:name/episodes"
    /\ namedIn(seriesFile)
    /\ Len(namedEpisodes) = 2
    /\ noEpisodeRequested
    /\ resp.status = 200
    /\ resp.body.data = <<>>

C10_WitnessMovie ==
    /\ Answered
    /\ req.route = "/api/movies/:name"
    /\ moviesFile.state = "ok" /\ Len(moviesFile.content) = 2
    /\ notFoundWith("Movie not found")

----------------------------------------------------------------------------
(* Properties of the error envelope, the health check and the store *)

\* the messages of the errors a request can raise: the TypeError of a property
\* read on undefined, a failed file read, the body parser's SyntaxError
thrownMessages == {"TypeError", "read", sSyntaxError}

\* C11: a 500 response, from the catch block of a route handler or from the
\* global error handler, carries the thrown error's message only when NODE_ENV
\* is 'development'; in any other mode its message field is not the error's.
C11_MessageOnlyInDevelopment ==
    (Answered /\ resp.status = 500 /\ nodeEnv # sDevelopment) =>
        resp.body.message \notin thrownMessages

\* the global error handler alone does mask the message
C11_GlobalHandlerMasks ==
    (Answered /\ req.route = "malformed body") =>
        /\ resp.status = 500
        /\ resp.body.message = IF nodeEnv = sDevelopment THEN sSyntaxError
                                ELSE "Something went wrong"

healthRequested == ~Idle /\ req.route = "/api/health"

healthy ==
    /\ resp.status = 200
    /\ resp.body.success
    /\ resp.body.timestamp \in Clock
    /\ resp.body.version = "1.0.0"

\* C12 as stated: /api/health always answers success=true with a timestamp and
\* version '1.0.0', after any sequence of prior requests and whatever the state
\* of the data files.
C12_AsStated == healthRequested => healthy

\* C12, amended: /api/health answers success=true with a timestamp and version
\* '1.0.0' whatever the state of the data files, as long as the rate limiter
\* admits the request; once the window's count has passed the limit the
\* answer is the limiter's 429.
C12_HealthUnlessLimited ==
    healthRequested =>
        IF hits > RateLimitMax THEN resp = TooManyRequests
        ELSE healthy /\ filesRead = {}

\* both data files unreadable and the health check still succeeds
C12_Witness ==
    /\ healthRequested
    /\ moviesFile.state = "missing"
    /\ seriesFile.state = "corrupt"
    /\ healthy

\* the health check of a client that used up its window
C12_WitnessLimited ==
    /\ healthRequested
    /\ hits > RateLimitMax
    /\ resp.status = 429

\* C13: the content store is read-only through the API: a step in which a
\* request is received, answered or closed leaves movies.json and series.json
\* as they were, on every route and with every parameter; a step that changes
\* one of them is an external edit of that file.
C13_ReadOnlyThroughApi ==
    [][/\ (req' # req \/ resp' # resp \/ hits' # hits)
           => (moviesFile' = moviesFile /\ seriesFile' = seriesFile)
       /\ (moviesFile' # moviesFile) => EditMovies(moviesFile')
       /\ (seriesFile' # seriesFile) => EditSeries(seriesFile')]_vars

\* /api/trending sorted its copy of a list stored out of rating order, and the
\* file still holds the stored order
C13_Witness ==
    /\ Answered
    /\ req.route = "/api/trending"
    /\ resp.status = 200
    /\ Len(resp.body.data) > 0
    /\ Len(stored(moviesFile)) = 2
    /\ sortByRating(stored(moviesFile)) # stored(moviesFile)
    /\ "movies.json" \in filesRead

C14_WitnessLimited ==
    /\ ~Idle
    /\ req.route = "/api/stats"
    /\ Len(stored(moviesFile)) = 2
    /\ resp = TooManyRequests

----------------------------------------------------------------------------
(* Properties of trending and the aggregator *)

trendingAnswered == Answered /\ req.route = "/api/trending"

validLimit(r) == r.query.limit = undefined \/ isNat(r.query.limit)

typeRequested(r, t) == r.query.type \in {undefined, <<>>, sAll, t}

\* the positions of the k highest-rated records of coll, rating compared as a
\* number, records of equal rating taken in stored order
topRated(coll, k) ==
    {i \in 1..Len(coll) :
        Cardinality({j \in 1..Len(coll) :
            \/ parseFloatTenths(coll[j].rating) > parseFloatTenths(coll[i].rating)
            \/ /\ parseFloatTenths(coll[j].rating) = parseFloatTenths(coll[i].rating)
               /\ j < i}) < k}

occurrences(list, x) == Cardinality({i \in 1..Len(list) : list[i] = x})

\* how often the tagged record x is among the top k of the requested collections
expectedOccurrences(r, x) ==
    LET k == limitOf(r) \div 2
        movies == withType(stored(moviesFile), "movie")
        series == withType(stored(seriesFile), "series")
    IN (IF typeRequested(r, <<"m", "o", "v", "i", "e">>)
        THEN Cardinality({i \in topRated(movies, k) : movies[i] = x}) ELSE 0)
       + (IF typeRequested(r, <<"s", "e", "r", "i", "e", "s">>)
          THEN Cardinality({i \in topRated(series, k) : series[i] = x}) ELSE 0)

\* C15: /api/trending with a limit L (a non-negative integer, 20 by default)
\* returns at most L items; as a multiset they are, for each requested type,
\* the limit/2 (rounded down) highest-rated records of that type, each tagged
\* with its type; the multiset is fixed by the request and the files, only the
\* order is not.
C15_TrendingMembership ==
    (trendingAnswered /\ validLimit(req)) =>
        LET data == resp.body.data
            movies == withType(stored(moviesFile), "movie")
            series == withType(stored(seriesFile), "series")
            items == {data[i] : i \in 1..Len(data)}
                       \cup {movies[i] : i \in 1..Len(movies)}
                       \cup {series[i] : i \in 1..Len(series)}
        IN /\ resp.status = 200
           /\ resp.body.success
           /\ Len(data) <= limitOf(req)
           /\ \A x \in items : occurrences(data, x) = expectedOccurrences(req, x)

\* limit=2 over two movies stored lowest rating first and two series: the
\* better movie and the better series, here with the series first
C15_Witness ==
    /\ trendingAnswered
    /\ req.query.limit = <<"2">>
    /\ req.query.type = undefined
    /\ Len(stored(moviesFile)) = 2 /\ Len(stored(seriesFile)) = 2
    /\ sortByRating(stored(moviesFile)) # stored(moviesFile)
    /\ Len(resp.body.data) = 2
    /\ resp.body.data[1].type = "series"
    /\ resp.body.data[2].type = "movie"
    /\ resp.body.data[2].name = sortByRating(stored(moviesFile))[1].name

statsAnswered == Answered /\ req.route = "/api/stats"

\* the pieces of s between its commas
pieces(s) ==
    {SubSeq(s, i, j) : <<i, j>> \in
        {p \in (1..(Len(s) + 1)) \X (0..Len(s)) :
            /\ p[1] <= p[2] + 1
            /\ p[1] = 1 \/ s[p[1] - 1] = ","
            /\ p[2] = Len(s) \/ s[p[2] + 1] = ","
            /\ \A k \in p[1]..p[2] : s[k] # ","}}

\* the piece without the blanks around it
trimmed(p) ==
    LET inked == {k \in 1..Len(p) : p[k] # " "}
    IN IF inked = {} THEN <<>>
       ELSE SubSeq(p, CHOOSE a \in inked : \A k \in inked : a <= k,
                      CHOOSE b \in inked : \A k \in inked : k <= b)

tagsOf(coll) ==
    UNION {{trimmed(p) : p \in pieces(coll[i].genre)} : i \in 1..Len(coll)}

allTags == tagsOf(stored(moviesFile)) \cup tagsOf(stored(seriesFile))

\* one pair per stored episode
allEpisodes ==
    LET series == stored(seriesFile)
    IN UNION {{<<i, j>> : j \in 1..(IF "episodes" \in DOMAIN series[i]
                                    THEN Len(series[i].episodes) ELSE 0)} :
                 i \in 1..Len(series)}

elements(list) == {list[i] : i \in 1..Len(list)}

\* C16: /api/stats reports totalMovies and totalSeries as the collection
\* sizes, totalEpisodes as the sum of the lengths of the series' episode
\* lists (0 for a series without one) and totalGenres as the number of
\* distinct tags found by splitting every title's genre at commas and
\* trimming the pieces, across both collections; that tag set is the set
\* /api/genres returns.
C16_StatsTotals ==
    /\ statsAnswered =>
          /\ resp.status = 200
          /\ resp.body.data.totalMovies = Len(stored(moviesFile))
          /\ resp.body.data.totalSeries = Len(stored(seriesFile))
          /\ resp.body.data.totalEpisodes = Cardinality(allEpisodes)
          /\ resp.body.data.totalGenres = Cardinality(allTags)
          /\ elements(resp.body.data.genres) = allTags
          /\ elements(genres(moviesFile, seriesFile).body.data) = allTags
    /\ (Answered /\ req.route = "/api/genres") =>
          /\ resp.status = 200
          /\ elements(resp.body.data) = allTags
          /\ Len(resp.body.data) = Cardinality(allTags)

\* a tag shared by a movie and a series once trimmed, an empty tag after a
\* trailing comma, a series without an episode list
C16_Witness ==
    /\ statsAnswered
    /\ stored(moviesFile) = <<MovieC, MovieTrail>>
    /\ stored(seriesFile) = <<SeriesPilot, SeriesNoList>>
    /\ resp.body.data.totalEpisodes = 2
    /\ resp.body.data.totalGenres = 4
    /\ <<>> \in elements(resp.body.data.genres)

\* C17: when the movie or the series collection is empty, its file missing
\* included, /api/stats still answers success=true and that collection's
\* average rating is the string 'NaN', not an error and not '0.0'.
C17_EmptyAverageIsNaN ==
    statsAnswered =>
        /\ resp.status = 200
        /\ resp.body.success
        /\ Len(stored(moviesFile)) = 0 => resp.body.data.averageMovieRating = sNaN
        /\ Len(stored(seriesFile)) = 0 => resp.body.data.averageSeriesRating = sNaN

\* movies.json is missing, series.json holds two series
C17_Witness ==
    /\ statsAnswered
    /\ moviesFile.state = "missing"
    /\ Len(stored(seriesFile)) = 2
    /\ resp.body.success
    /\ resp.body.data.averageMovieRating = sNaN
    /\ resp.body.data.averageSeriesRating # sNaN

\* movies.json holds an empty list
C17_WitnessEmptyList ==
    /\ statsAnswered
    /\ moviesFile = [state |-> "ok", content |-> <<>>]
    /\ resp.body.data.averageMovieRating = sNaN

----------------------------------------------------------------------------
(* Properties of the universal search's type filter *)

sMovie == <<"m", "o", "v", "i", "e">>
sSeries == <<"s", "e", "r", "i", "e", "s">>

searchAnswered == ListAnswered /\ req.route = "/api/search"

\* the records of a stored collection that pass the request's filters, each
\* carrying the type of its collection
hitsIn(file, t) ==
    LET coll == stored(file)
        tagged == [i \in 1..Len(coll) |-> ("type" :> t) @@ coll[i]]
    IN SelectSeq(tagged, LAMBDA m : searchHolds(req, m) /\ genreHolds(req, m))

moviesSearched == req.query.type \in {undefined, <<>>, sAll, sMovie}
seriesSearched == req.query.type \in {undefined, <<>>, sAll, sSeries}

\* C19: /api/search searches only movies with type=movie, only series with
\* type=series, both with type absent or 'all'; every returned item carries
\* the type of the collection it came from, the movie results come before the
\* series results, each in stored order, and any other type value yields an
\* empty result with total 0.
C19_TypeFilter ==
    searchAnswered =>
        LET expected == (IF moviesSearched THEN hitsIn(moviesFile, "movie") ELSE <<>>)
                          \o (IF seriesSearched THEN hitsIn(seriesFile, "series") ELSE <<>>)
            limit == orDefault(req.query.limit, DefaultLimit)
            offset == orDefault(req.query.offset, DefaultOffset)
            data == resp.body.data
        IN /\ resp.status = 200
           /\ resp.body.total = Len(expected)
           /\ data = slice(expected, parseInt(offset), plus(parseInt(offset), parseInt(limit)))
           /\ filesRead = (IF moviesSearched THEN {"movies.json"} ELSE {})
                             \cup (IF seriesSearched THEN {"series.json"} ELSE {})
           /\ \A i \in 1..Len(data) : data[i].type \in {"movie", "series"}
           /\ \A i, j \in 1..Len(data) :
                 (i < j /\ data[i].type = "series") => data[j].type = "series"
           /\ (~moviesSearched /\ ~seriesSearched) => (data = <<>> /\ resp.body.total = 0)

\* type=series and a term that names a stored movie and a stored series: only
\* the series is returned, movies.json is not read
C19_Witness ==
    /\ searchAnswered
    /\ req.query.type = sSeries
    /\ \E i \in 1..Len(stored(moviesFile)) : occursIn(req.query.q, stored(moviesFile)[i])
    /\ resp.body.total = 1
    /\ resp.body.data[1].type = "series"
    /\ filesRead = {"series.json"}

\* no type: the movie results, then the series results
C19_WitnessBoth ==
    /\ searchAnswered
    /\ req.query.type = undefined
    /\ resp.body.total = 2
    /\ Len(resp.body.data) = 2
    /\ resp.body.data[1].type = "movie"
    /\ resp.body.data[2].type = "series"

\* an unknown type: nothing is searched
C19_WitnessOther ==
    /\ searchAnswered
    /\ req.query.type = <<"x">>
    /\ Len(stored(moviesFile)) = 2
    /\ filesRead = {}
    /\ resp.body.total = 0

----------------------------------------------------------------------------
(* Properties of the series player page *)

\* the positions of the loaded series' episodes with the selected numbers
selectedEpisodes(p) ==
    IF p.currentSeries = null THEN {}
    ELSE IF "episodes" \notin DOMAIN p.currentSeries THEN {}
    ELSE {i \in 1..Len(p.currentSeries.episodes) :
            /\ p.currentSeries.episodes[i].season = p.currentSeason
            /\ p.currentSeries.episodes[i].episode = p.currentEpisode}

\* the URL of episode ep in slot currentSource, source1 when it has no such slot
urlOf(p, ep) ==
    LET slot == sourceSlot(p.currentSource)
    IN IF slot \in DOMAIN ep.sources /\ ep.sources[slot] # <<>> THEN ep.sources[slot]
       ELSE IF "source1" \in DOMAIN ep.sources THEN ep.sources.source1
       ELSE undefined

\* the iframe of player p shows its selected episode
showsSelection(p) ==
    \E i \in selectedEpisodes(p) :
        LET ep == p.currentSeries.episodes[i]
        IN "sources" \in DOMAIN ep /\ p.iframeSrc = urlOf(p, ep)

\* C20: after any sequence of loadSeries, selectSeason, selectEpisode and
\* changeSource calls, the URL loaded in the player iframe is the one of the
\* episode identified by (currentSeason, currentEpisode), in slot
\* currentSource with fallback to source1.
C20_IframeShowsSelection ==
    (seriesPlayer.iframeSrc # sBlank) => showsSelection(seriesPlayer)

\* the second half of C20: only selectSeason changes currentSeason, and it
\* resets currentEpisode to 1
C20_SelectSeasonResets ==
    [][(seriesPlayer'.currentSeason # seriesPlayer.currentSeason)
          => seriesPlayer'.currentEpisode = 1]_vars

\* after a call that ran loadPlayer, the iframe does show the selection
\* whenever the selected episode exists and has sources
C20_PlayableSelectionShown ==
    [][(/\ seriesPlayer' # seriesPlayer
        /\ seriesPlayer'.loading = seriesPlayer.loading
        /\ \E i \in selectedEpisodes(seriesPlayer') :
              "sources" \in DOMAIN seriesPlayer'.currentSeries.episodes[i])
          => showsSelection(seriesPlayer')]_vars

----------------------------------------------------------------------------
(* Properties of the search box *)

\* the timer, if any, is the one searchTimeout names, set by the last input
\* event for the trimmed value its input still holds
pendingTimerIsCurrent ==
    \A t \in searchManager.timers :
        /\ t.id = searchManager.searchTimeout
        /\ t.query = trim(searchManager.value[t.isMobile])
        /\ Len(t.query) >= 2
        /\ t.remaining + searchManager.sinceInput >= DebounceMs

\* this step sent a search request
requestIssued == Len(searchManager'.calls) > Len(searchManager.calls)

\* the request this step sent
issued == searchManager'.calls[Len(searchManager'.calls)]

\* this step is an input event that changed the value of input isMobile
typed(isMobile) ==
    /\ searchManager'.value[isMobile] # searchManager.value[isMobile]
    /\ searchManager'.sinceInput = 0

\* C18: the autocomplete is debounced by 300 ms: at most one timer is pending
\* across the desktop and mobile inputs, every input event cancels the pending
\* timer, a universal-search request is sent only for a trimmed query of at
\* least 2 characters that its input has held for 300 ms without an input
\* event, and an input whose trimmed value has fewer than 2 characters sends
\* no request, leaves no timer and hides its dropdown.
C18_Debounced ==
    /\ [](Cardinality(searchManager.timers) <= 1 /\ pendingTimerIsCurrent)
    /\ [][/\ requestIssued =>
               /\ issued.origin = "suggestions"
               /\ issued.limit = SuggestionLimit
               /\ Len(issued.query) >= 2
               /\ issued.query = trim(searchManager.value[issued.isMobile])
               /\ searchManager.sinceInput >= DebounceMs
               /\ searchManager'.timers = {}
          /\ \A isMobile \in BOOLEAN :
                typed(isMobile) =>
                   /\ ~requestIssued
                   /\ \A t \in searchManager'.timers :
                         t.remaining = DebounceMs /\ t.isMobile = isMobile
                   /\ Len(trim(searchManager'.value[isMobile])) < 2 =>
                         /\ searchManager'.timers = {}
                         /\ ~searchManager'.shown[isMobile]]_vars

\* a suggestions request for "ab" is in flight for the mobile input, whose
\* value " ab" stood for 300 ms, after the desktop input was typed into
C18_Witness ==
    /\ searchManager.value[TRUE] = <<" ", "a", "b">>
    /\ searchManager.value[FALSE] = <<"b", "c", " ">>
    /\ \E i \in 1..Len(searchManager.calls) :
          /\ searchManager.calls[i].origin = "suggestions"
          /\ searchManager.calls[i].query = <<"a", "b">>
          /\ searchManager.calls[i].isMobile
          /\ searchManager.calls[i].limit = SuggestionLimit

\* a short value was typed while a dropdown was open: it is hidden, no timer is left
C18_WitnessShort ==
    /\ searchManager.value[FALSE] = <<"a">>
    /\ searchManager.sinceInput = 0
    /\ searchManager.timers = {}
    /\ ~searchManager.shown[FALSE]
    /\ searchManager.shown[TRUE]
    /\ searchManager.searchTimeout # 0

----------------------------------------------------------------------------
(* The genre value 'all' *)

\* the request r without its genre parameter
withoutGenre(r) == [r EXCEPT !.query.genre = undefined]

\* C23: on /api/movies, /api/series and /api/search a request with genre=all
\* returns the same data, total and hasMore as the same request without a genre
\* parameter, titles whose genre does not contain 'all' included.
C23_GenreAllIsNoFilter ==
    (ListAnswered /\ req.query.genre = sAll) =>
        /\ resp.status = 200
        /\ \A plain \in answers(withoutGenre(req), moviesFile, seriesFile) :
              /\ plain.status = 200
              /\ resp.body.data = plain.body.data
              /\ resp.body.total = plain.body.total
              /\ resp.body.hasMore = plain.body.hasMore
        /\ resp.body.total
              = Len(SelectSeq(collectionOf(req), LAMBDA m : searchHolds(req, m)))

\* genre=all on the universal search: both titles found, neither with 'all' in
\* its genre, the first of them on the page and more to come
C23_Witness ==
    /\ ListAnswered
    /\ req.route = "/api/search"
    /\ req.query.genre = sAll
    /\ resp.body.total = 2
    /\ Len(resp.body.data) = 1
    /\ resp.body.hasMore
    /\ \A i \in 1..Len(collectionOf(req)) :
          ~includes(toLowerCase(collectionOf(req)[i].genre), sAll)

\* the same on /api/movies
C23_WitnessMovies ==
    /\ ListAnswered
    /\ req.route = "/api/movies"
    /\ req.query.genre = sAll
    /\ resp.body.total = 2
    /\ Len(resp.body.data) = 2

----------------------------------------------------------------------------
(* Properties of reading page by page *)

\* the pages of data, one after the other
RECURSIVE joined(_)
joined(ps) == IF ps = <<>> THEN <<>> ELSE Head(ps).data \o joined(Tail(ps))

\* pages were read, each served from the data files as they were when the walk
\* began and as they still are
readUndisturbed ==
    /\ pager.phase \in {"walking", "ended", "beyond"}
    /\ pager.pages # <<>>
    /\ pager.undisturbed
    /\ moviesFile = pager.mFile
    /\ seriesFile = pager.sFile

\* the number of pages read up to the first whose hasMore was false
walked == IF pager.phase = "beyond" THEN Len(pager.pages) - 1 ELSE Len(pager.pages)

\* the filtered collection the pager reads
wholeList == filteredOf(Request(pager.route, undefined, pager.query))

\* C21: while the data files are unchanged, the pages at offsets 0, L, 2L, ...
\* up to the first with hasMore = false make up exactly the filtered collection
\* in stored order, nothing twice and nothing left out; hasMore is false on
\* exactly the last non-empty page, or on the first page of an empty collection.
C21_PagesMakeTheCollection ==
    readUndisturbed =>
        LET read == joined(SubSeq(pager.pages, 1, walked))
        IN /\ Len(read) <= Len(wholeList)
           /\ read = SubSeq(wholeList, 1, Len(read))
           /\ \A i \in 1..walked :
                 /\ pager.pages[i].hasMore <=> (i < walked \/ pager.phase = "walking")
                 /\ pager.pages[i].hasMore => Len(pager.pages[i].data) = pager.limit
           /\ pager.phase # "walking" =>
                 /\ read = wholeList
                 /\ wholeList # <<>> => pager.pages[walked].data # <<>>
                 /\ wholeList = <<>> => walked = 1
           /\ pager.phase = "beyond" =>
                 /\ pager.pages[walked + 1].data = <<>>
                 /\ ~pager.pages[walked + 1].hasMore

\* four titles read one by one from the universal search, to the end
C21_Witness ==
    /\ readUndisturbed
    /\ pager.phase = "ended"
    /\ pager.route = "/api/search"
    /\ pager.limit = 1
    /\ Len(pager.pages) = 4
    /\ \A i \in 1..4 : Len(pager.pages[i].data) = 1

\* two movies in one full page, and the page asked for after it
C21_WitnessFullLastPage ==
    /\ readUndisturbed
    /\ pager.phase = "beyond"
    /\ pager.route = "/api/movies"
    /\ pager.limit = 2
    /\ Len(pager.pages) = 2
    /\ Len(pager.pages[1].data) = 2

\* nothing passes the filters: the first page is the last
C21_WitnessEmpty ==
    /\ readUndisturbed
    /\ pager.phase = "ended"
    /\ Truthy(pager.query.genre)
    /\ collectionOf(Request(pager.route, undefined, pager.query)) # <<>>
    /\ pager.pages = <<[data |-> <<>>, hasMore |-> FALSE]>>

\* movies.json was edited between two pages: what was read is the collection
\* neither as it is now nor as it was
C21_WitnessDisturbed ==
    /\ pager.phase = "ended"
    /\ ~pager.undisturbed
    /\ pager.route = "/api/movies"
    /\ joined(pager.pages) # wholeList
    /\ joined(pager.pages) # applyGenre(applySearch(pager.mFile.content, pager.query.search),
                                        pager.query.genre)

----------------------------------------------------------------------------
(* Properties of the dropdown *)

\* the list of input isMobile holds the results of the latest request answered
\* for it: no older answer was written over a newer one
latestListed(isMobile) ==
    searchManager.listed[isMobile] = searchManager.newest[isMobile]

\* the input holds fewer than 2 characters once trimmed; every change of its
\* value is an input event, so nothing was typed into it since it got short
short(isMobile) == Len(trim(searchManager.value[isMobile])) < 2

\* an answer to an older query never overwrites the results of a newer one
C22_OlderNeverOverwrites == \A isMobile \in BOOLEAN : latestListed(isMobile)

\* an input shortened below 2 characters keeps its dropdown hidden
C22_ShortStaysHidden ==
    \A isMobile \in BOOLEAN : short(isMobile) => ~searchManager.shown[isMobile]

\* C22: under any interleaving of keystrokes, timer firings and search
\* responses the dropdown shows only results of the most recent debounced
\* query: an answer to an older query never overwrites the results of a newer
\* one, and an input shortened below 2 characters keeps its dropdown hidden
\* until a new query of at least 2 characters was debounced and answered.
C22_DropdownIsCurrent ==
    \A isMobile \in BOOLEAN :
        /\ latestListed(isMobile)
        /\ short(isMobile) => ~searchManager.shown[isMobile]

====
